---- MODULE Spec2Model ----
(***************************************************************************)
(* A model of the constraint-generation, input-validation and Mahalanobis  *)
(* core of metric_learn: Constraints (constraints.py), check_input and its *)
(* helpers (_util.py) and MahalanobisMixin (base_metric.py).               *)
(*                                                                         *)
(* Arrays are functions over 0 .. n-1, as numpy indexes them.  Python      *)
(* lists that are edited in place (all_inds) are sequences, so list index  *)
(* c is element c + 1.  A random draw is a nondeterministic choice over    *)
(* the values the call can return; rng_draws counts the calls chunks()     *)
(* has made on its random source.                                          *)
(***************************************************************************)
EXTENDS Integers, Sequences, FiniteSets, TLC

VARIABLES
  pc,              \* position of the running call
  raised,          \* the exception that ended the call, or NoException
  warned,          \* the warnings emitted so far (warnings.warn), in order
  rng_draws,       \* chunks(): number of calls made on random_state
  partial_labels,  \* Constraints.partial_labels
  num_chunks,      \* chunks(): argument
  chunk_size,      \* chunks(): argument
  chunks,          \* chunks(): the result array
  all_inds,        \* chunks(): list of the unused members of each class
  idx,             \* chunks(): next chunk id
  num_constraints, \* positive_negative_pairs(): argument
  same_length,     \* positive_negative_pairs(): argument
  same_label,      \* _pairs(): argument
  ab,              \* _pairs(): the set of pairs held
  it,              \* _pairs(): rounds completed
  anchors_left,    \* _pairs(): anchors of this round not yet processed
  pos_a, pos_b,    \* positive_negative_pairs(): a, b, the similar pairs
  neg_c, neg_d,    \* positive_negative_pairs(): c, d, the dissimilar pairs
  type_of_inputs,  \* check_input(): argument
  input_data,      \* check_input(): the array of lines 117-128
  preprocessor,    \* check_input(): argument
  tuple_size,      \* check_input(): argument
  estimator,       \* check_input(): argument
  ensure_min_features, \* check_input(): argument
  sk_accepts,      \* whether check_array accepts the array under args_for_sk_checks
  preprocessor_calls,  \* number of calls made of the preprocessor
  result,          \* check_input(): the array returned
  X,               \* the points the caller holds, one row per point
  transformer_,    \* MahalanobisMixin.transformer_, the learned L
  preprocessor_,   \* BaseMetricLearner.preprocessor_
  pairs,           \* score_pairs(): argument
  scores,          \* score_pairs(): the array returned
  X_embedded,      \* transform(): the array returned
  M,               \* metric(): the matrix returned
  metric_arg,      \* transformer_from_metric(): argument
  factor,          \* transformer_from_metric(): the matrix returned
  learner_class,   \* the class of the learner built
  self_dict,       \* estimator.__dict__: the attributes of the learner
  heap,            \* the arrays allocated: heap[i] is the content of array i
  metric_funs,     \* the functions get_metric() returned, held by the caller
  fits,            \* number of calls of fit made
  work,            \* the computations the last call of fit started, in order
  res,             \* MLKR.fit(): res, what minimize returned last
  returned,        \* the value the last call returned
  random_state,    \* chunks(), positive_negative_pairs(): argument
  np_random_used,  \* whether numpy's global RandomState has been drawn from
  y_arr,           \* y: check_input(), score(): argument; wrap_pairs(): the labels built
  w_arr,           \* w: _check_sdp_from_eigen(): argument, the eigenvalues
  tol,             \* _check_sdp_from_eigen(): argument
  k_genuine,       \* generate_knntriplets(): argument
  k_impostor,      \* generate_knntriplets(): argument
  triplets,        \* generate_knntriplets(): the array returned
  quadruplets,     \* _QuadrupletsClassifierMixin.predict(), score(): argument
  X_other,         \* a second array of points the caller holds, of the shape of X
  scale,           \* the scalar the caller multiplies points by
  indicators,      \* the indicators of points the caller holds
  constraints      \* wrap_pairs(): argument, the index arrays (a, b, c, d)

chunkVars == <<num_chunks, chunk_size, chunks, all_inds, idx>>
pairVars == <<num_constraints, same_length, same_label, ab, it, anchors_left,
              pos_a, pos_b, neg_c, neg_d>>

inputVars == <<type_of_inputs, input_data, preprocessor, tuple_size, estimator,
               ensure_min_features, sk_accepts, preprocessor_calls, result>>

learnerVars == <<X, transformer_, preprocessor_, pairs, scores, X_embedded, M>>

factorVars == <<metric_arg, factor>>

\* the variables of the operations modelled after MahalanobisMixin's scoring
lifeVars == <<learner_class, self_dict, heap, metric_funs, fits, work, res, returned>>

rngVars == <<random_state, np_random_used>>

\* the arguments and results of the calls modelled last
lateVars == <<y_arr, w_arr, tol, k_genuine, k_impostor, triplets, quadruplets,
              X_other, scale, indicators, constraints>>

moreVars == <<factorVars, lifeVars, rngVars, lateVars>>

vars == <<pc, raised, warned, rng_draws, partial_labels, chunkVars, pairVars,
          inputVars, learnerVars, moreVars>>

\* ------------------------------------------------------------------ bounds
\* most points of a label vector
NumPoints == 4
\* labels run from UnknownLabel to MaxLabel
MaxLabel == 2
\* chunks(): num_chunks is drawn from 0 .. MaxNumChunks
MaxNumChunks == 2
\* chunks(): chunk_size is drawn from 1 .. MaxChunkSize
MaxChunkSize == 2

\* positive_negative_pairs(): most points of a label vector
PairNumPoints == 3

\* check_input(): the dimensions of an array are drawn from 0 .. MaxDim
MaxDim == 2

\* the entries of transformer_ are drawn from -MaxEntry .. MaxEntry
MaxEntry == 1

\* the leading terms of the diagonal of a metric are drawn from -1 .. MaxMetricEntry
MaxMetricEntry == 4

\* the calls of fit made on one learner
MaxFits == 2

\* the pairs in an array given to check_collapsed_pairs
MaxPairsChecked == 2

\* the tuples in an array of values given to check_input
MaxTuplesChecked == 2

\* constraints.py:20, '-1 indicating unknown label'
UnknownLabel == -1

NoException == [type |-> "None"]

\* Python's None, as the value of an argument or an attribute
None == [kind |-> "None"]

\* ------------------------------------------------------------- helpers
Min(S) == CHOOSE x \in S : \A y \in S : x <= y

\* The elements of a finite set of integers in ascending order.
RECURSIVE SortedSeq(_)
SortedSeq(S) ==
  IF S = {} THEN <<>> ELSE <<Min(S)>> \o SortedSeq(S \ {Min(S)})

\* s[1] + ... + s[n]
RECURSIVE SumTo(_, _)
SumTo(s, n) == IF n = 0 THEN 0 ELSE s[n] + SumTo(s, n - 1)

SumSeq(s) == SumTo(s, Len(s))

\* s with its element at list index c (counted from 0) deleted: del s[c]
DelAt(s, c) == SubSeq(s, 1, c) \o SubSeq(s, c + 2, Len(s))

Labels == UnknownLabel .. MaxLabel

LabelVectors == UNION {[0 .. (n - 1) -> Labels] : n \in 0 .. NumPoints}

\* the label vectors of positive_negative_pairs(): unknown and two classes
PairLabels == {UnknownLabel, 0, 1}

\* the values of num_constraints the calls are made with
NumConstraintsArgs == {0, 1, 2}

PairLabelVectors == UNION {[0 .. (n - 1) -> PairLabels] : n \in 0 .. PairNumPoints}

\* ---------------------------------------------------- Constraints.chunks
\* -np.ones_like(self.partial_labels, dtype=int)
MinusOnes(labels) == [i \in DOMAIN labels |-> -1]

\* np.unique(...) sorted, without the entries of unknown_uniq (uniq < 0)
KnownUniq_WithUnknown(labels) == SortedSeq({labels[i] : i \in DOMAIN labels})
KnownUniq(labels) == SortedSeq({labels[i] : i \in DOMAIN labels} \cap (0 .. MaxLabel))

\* all_inds: for each known class, in ascending label order, its indices
InitAllInds(labels) ==
  LET uniq == KnownUniq(labels)
  IN  [c \in 1 .. Len(uniq) |-> {i \in DOMAIN labels : labels[i] = uniq[c]}]

\* len(s) // chunk_size
ChunksOfClass(s, cs) == Cardinality(s) \div cs

\* int(np.sum([len(s) // chunk_size for s in all_inds]))
MaxChunks(inds, cs) == SumSeq([c \in 1 .. Len(inds) |-> ChunksOfClass(inds[c], cs)])

\* the message of the ValueError of lines 73-76, by its three %d fields
ChunksError(cs, nc, mx) ==
  [type |-> "ValueError", text |-> "Not enough possible chunks", chunk_size |-> cs,
   num_chunks |-> nc, max_chunks |-> mx]

\* if max_chunks < num_chunks
NotEnoughChunksLE(mx, nc) == mx <= nc
NotEnoughChunks(mx, nc) == mx < nc

\* the values c can take: 0 when one class is left, else
\* random_state.randint(0, high=len(all_inds) - 1), whose high is exclusive
ClassDraw_Inclusive(n) == IF n = 1 THEN {0} ELSE 0 .. (n - 1)
ClassDraw(n) == IF n = 1 THEN {0} ELSE 0 .. (n - 2)

\* if len(inds) < chunk_size
TooSmallLE(inds, cs) == Cardinality(inds) <= cs
TooSmall(inds, cs) == Cardinality(inds) < cs

\* random_state.choice(list(inds), chunk_size, replace=False): the sets of
\* chunk_size different members of inds
ChoiceNoReplace(inds, cs) == {ii \in SUBSET inds : Cardinality(ii) = cs}

\* chunks[ii] = idx
Assign(arr, ii, v) == [i \in DOMAIN arr |-> IF i \in ii THEN v ELSE arr[i]]

\* the values of the argument random_state: none passed, a seed, a
\* RandomState the caller built
RandomStateArgs == {None, [kind |-> "int", value |-> 0], [kind |-> "RandomState"]}

\* sklearn.utils.check_random_state(seed), lines 26 and 65: None gives
\* np.random.mtrand._rand, the RandomState singleton that the functions of
\* np.random share; an int gives a new RandomState(seed); a RandomState is
\* returned as it is
check_random_state(seed) ==
  CASE seed.kind = "None" -> "np.random.mtrand._rand"
    [] seed.kind = "int" -> "RandomState(seed)"
    [] seed.kind = "RandomState" -> "seed"

\* whether numpy's global RandomState has been drawn from, after calls
\* more draws on check_random_state(seed)
after_draws(used, seed, calls) ==
  used \/ (calls > 0 /\ check_random_state(seed) = "np.random.mtrand._rand")

\* lines 65-77: the setup, the feasibility check and its ValueError
ChunksCall ==
  /\ pc = "idle"
  /\ random_state' \in RandomStateArgs
  /\ \E nc \in 0 .. MaxNumChunks, cs \in 1 .. MaxChunkSize :
       LET inds == InitAllInds(partial_labels)
           mx   == MaxChunks(inds, cs)
       IN  /\ num_chunks' = nc
           /\ chunk_size' = cs
           /\ chunks' = MinusOnes(partial_labels)
           /\ all_inds' = inds
           /\ idx' = 0
           /\ IF NotEnoughChunks(mx, nc)
                THEN /\ raised' = ChunksError(cs, nc, mx)
                     /\ pc' = "raised"
                ELSE /\ raised' = raised
                     /\ pc' = "loop"
  /\ UNCHANGED <<lateVars, warned, rng_draws, partial_labels, factorVars, lifeVars, np_random_used,
                 learnerVars, pairVars, inputVars>>

\* one randint call, unless a single class is left
ClassDrawCost(n) == IF n = 1 THEN 0 ELSE 1

\* lines 78-86: the drawn class has fewer than chunk_size unused members
ChunksDiscard ==
  /\ pc = "loop"
  /\ idx < num_chunks /\ all_inds # <<>>
  /\ \E c \in ClassDraw(Len(all_inds)) :
       /\ TooSmall(all_inds[c + 1], chunk_size)
       /\ all_inds' = DelAt(all_inds, c)
  /\ rng_draws' = rng_draws + ClassDrawCost(Len(all_inds))
  /\ np_random_used' = after_draws(np_random_used, random_state,
                                   ClassDrawCost(Len(all_inds)))
  /\ UNCHANGED <<lateVars, pc, raised, warned, partial_labels, factorVars, lifeVars, random_state, learnerVars, num_chunks, chunk_size,
                 chunks, idx, pairVars, inputVars>>

\* lines 78-90: chunk_size members of the drawn class become chunk idx
ChunksForm ==
  /\ pc = "loop"
  /\ idx < num_chunks /\ all_inds # <<>>
  /\ \E c \in ClassDraw(Len(all_inds)) :
       /\ ~TooSmall(all_inds[c + 1], chunk_size)
       /\ \E ii \in ChoiceNoReplace(all_inds[c + 1], chunk_size) :
            /\ all_inds' = [all_inds EXCEPT ![c + 1] = @ \ ii]
            /\ chunks' = Assign(chunks, ii, idx)
  /\ idx' = idx + 1
  /\ rng_draws' = rng_draws + ClassDrawCost(Len(all_inds)) + 1
  /\ np_random_used' = after_draws(np_random_used, random_state,
                                   ClassDrawCost(Len(all_inds)) + 1)
  /\ UNCHANGED <<lateVars, pc, raised, warned, partial_labels, factorVars, lifeVars, random_state, learnerVars, num_chunks, chunk_size,
                 pairVars, inputVars>>

\* lines 78, 91: the loop condition fails, chunks is returned
ChunksReturn ==
  /\ pc = "loop"
  /\ ~(idx < num_chunks /\ all_inds # <<>>)
  /\ pc' = "done"
  /\ UNCHANGED <<lateVars, raised, warned, rng_draws, partial_labels, factorVars, lifeVars, rngVars,
                 learnerVars, chunkVars, pairVars, inputVars>>

\* no call of chunks() made
ChunksIdle ==
  /\ num_chunks = 0
  /\ chunk_size = 1
  /\ chunks = <<>>
  /\ all_inds = <<>>
  /\ idx = 0

\* no call of positive_negative_pairs() made
PairsIdle ==
  /\ num_constraints = 0
  /\ same_length = FALSE
  /\ same_label = TRUE
  /\ ab = {}
  /\ it = 0
  /\ anchors_left = 0
  /\ pos_a = <<>> /\ pos_b = <<>> /\ neg_c = <<>> /\ neg_d = <<>>

\* no call of check_input() made
InputIdle ==
  /\ type_of_inputs = "classic"
  /\ input_data = [shape |-> <<>>, by |-> "caller"]
  /\ preprocessor = [kind |-> "None"]
  /\ tuple_size = [kind |-> "None"]
  /\ estimator = [kind |-> "None"]
  /\ ensure_min_features = 1
  /\ sk_accepts = TRUE
  /\ preprocessor_calls = 0
  /\ result = [shape |-> <<>>, by |-> "nobody"]

\* no learner constructed
LearnerIdle ==
  /\ X = <<>>
  /\ transformer_ = <<>>
  /\ preprocessor_ = [kind |-> "None"]
  /\ pairs = [ndim |-> 3, rows |-> <<>>]
  /\ scores = <<>>
  /\ X_embedded = <<>>
  /\ M = <<>>

\* no call of transformer_from_metric made
FactorIdle ==
  /\ metric_arg = <<>>
  /\ factor = <<>>

\* no learner built
LifeIdle ==
  /\ learner_class = "None"
  /\ self_dict = <<>>
  /\ heap = <<>>
  /\ metric_funs = {}
  /\ fits = 0
  /\ work = <<>>
  /\ res = <<>>
  /\ returned = <<>>

\* no random_state passed, numpy's global RandomState as it was seeded
RngIdle ==
  /\ random_state = None
  /\ np_random_used = FALSE

LateIdle ==
  /\ y_arr = None
  /\ w_arr = <<>>
  /\ tol = None
  /\ k_genuine = 0
  /\ k_impostor = 0
  /\ triplets = <<>>
  /\ quadruplets = <<>>
  /\ X_other = <<>>
  /\ scale = 1
  /\ indicators = <<>>
  /\ constraints = <<>>

MoreIdle == FactorIdle /\ LifeIdle /\ RngIdle /\ LateIdle

\* no call running, nothing raised, nothing warned, no draw made
Quiet ==
  /\ pc = "idle"
  /\ raised = NoException
  /\ warned = <<>>
  /\ rng_draws = 0

\* Constraints.__init__, and no call made yet
InitChunks ==
  /\ Quiet
  /\ partial_labels \in LabelVectors
  /\ ChunksIdle
  /\ PairsIdle
  /\ InputIdle
  /\ LearnerIdle
  /\ MoreIdle

NextChunks == ChunksCall \/ ChunksDiscard \/ ChunksForm \/ ChunksReturn

SpecChunks == InitChunks /\ [][NextChunks]_vars


\* ------------------------------- Constraints.positive_negative_pairs, _pairs
\* _pairs(..., max_iter=10, ...)
max_iter == 10

\* known_label_idx, = np.where(self.partial_labels >= 0), as a sequence:
\* known_label_idx[k] is element k + 1
KnownLabelIdx(labels) == SortedSeq({i \in DOMAIN labels : labels[i] >= 0})

\* known_labels = self.partial_labels[known_label_idx], indexed from 0
KnownLabels(labels) ==
  LET kidx == KnownLabelIdx(labels)
  IN  [k \in 0 .. (Len(kidx) - 1) |-> labels[kidx[k + 1]]]

\* nc = num_constraints - len(ab)
RoundDrawsAll(numc, held) == numc
RoundDraws(numc, held) == numc - Cardinality(held)

\* b_choices: the positions of known_labels the mask leaves, lines 46-51
BChoicesWithIdentity(known, aidx, same) ==
  IF same THEN {k \in DOMAIN known : known[k] = known[aidx]}
          ELSE {k \in DOMAIN known : known[k] # known[aidx]}
BChoices(known, aidx, same) ==
  IF same THEN {k \in DOMAIN known : known[k] = known[aidx]} \ {aidx}
          ELSE {k \in DOMAIN known : known[k] # known[aidx]}

\* while it < max_iter and len(ab) < num_constraints
PairsLoopCond(rounds, held, numc) == rounds < max_iter /\ Cardinality(held) < numc

\* the warning of lines 56-57, by its three % fields
ShortfallWarning(n, same, numc) ==
  [text |-> "Only generated", n |-> n,
   polarity |-> IF same THEN "positive" ELSE "negative", requested |-> numc]

\* if len(ab) < num_constraints: warnings.warn(...)
WarnIfShortLE(w, held, same, numc) ==
  IF Cardinality(held) <= numc
    THEN Append(w, ShortfallWarning(Cardinality(held), same, numc))
    ELSE w
WarnIfShort(w, held, same, numc) ==
  IF Cardinality(held) < numc
    THEN Append(w, ShortfallWarning(Cardinality(held), same, numc))
    ELSE w

\* list(S): the members of a set, each once, in any order
Orderings(S) ==
  {f \in [1 .. Cardinality(S) -> S] : \A i, j \in DOMAIN f : f[i] = f[j] => i = j}

\* s[:n]
Take(s, n) == SubSeq(s, 1, IF n < Len(s) THEN n ELSE Len(s))

\* the rows of known_label_idx[ab.T] for ab = np.array(lst, dtype=int):
\* the anchors and the partners as indices of partial_labels.  An empty lst
\* gives an array of shape (0,), which has no rows.
PairRows(labels, lst) ==
  LET kidx == KnownLabelIdx(labels)
  IN  IF lst = <<>> THEN <<>>
      ELSE << [i \in DOMAIN lst |-> kidx[lst[i][1] + 1]],
              [i \in DOMAIN lst |-> kidx[lst[i][2] + 1]] >>

\* 'a, b = self._pairs(...)' on an array without rows
UnpackError ==
  [type |-> "ValueError", text |-> "not enough values to unpack (expected 2, got 0)"]

\* random_state.randint(num_labels, size=nc) with num_labels = 0
RandintError == [type |-> "ValueError", text |-> "low >= high"]

\* lines 26-27 and 38-42: positive_negative_pairs enters _pairs(same_label=True)
PairsCall ==
  /\ pc = "idle"
  /\ \E numc \in NumConstraintsArgs : num_constraints' = numc
  /\ random_state' \in RandomStateArgs
  /\ same_label' = TRUE
  /\ ab' = {}
  /\ it' = 0
  /\ pc' = "while"
  /\ UNCHANGED <<lateVars, raised, warned, rng_draws, partial_labels, factorVars, lifeVars, np_random_used, learnerVars, chunkVars,
                 same_length, anchors_left, pos_a, pos_b, neg_c, neg_d, inputVars>>

\* lines 43-45: a round starts and draws its nc anchors
PairsRoundStart ==
  /\ pc = "while"
  /\ PairsLoopCond(it, ab, num_constraints)
  /\ IF KnownLabelIdx(partial_labels) = <<>>
       THEN /\ raised' = RandintError
            /\ pc' = "raised"
            /\ UNCHANGED <<anchors_left, np_random_used>>
       ELSE /\ anchors_left' = RoundDraws(num_constraints, ab)
            /\ pc' = "for"
            /\ raised' = raised
            /\ np_random_used' = after_draws(np_random_used, random_state, 1)
  /\ UNCHANGED <<lateVars, warned, rng_draws, partial_labels, factorVars, lifeVars, random_state, learnerVars, chunkVars, num_constraints,
                 same_length, same_label, ab, it, pos_a, pos_b, neg_c, neg_d,
                 inputVars>>

\* lines 45-53: one anchor of the round, and its partner if it has any
PairsDraw ==
  /\ pc = "for"
  /\ anchors_left > 0
  /\ LET known == KnownLabels(partial_labels)
     IN  \E aidx \in DOMAIN known :
           LET b_choices == BChoices(known, aidx, same_label)
           IN  IF b_choices # {}
                 THEN /\ \E bidx \in b_choices : ab' = ab \cup {<<aidx, bidx>>}
                      /\ np_random_used' = after_draws(np_random_used, random_state, 1)
                 ELSE UNCHANGED <<ab, np_random_used>>
  /\ anchors_left' = anchors_left - 1
  /\ UNCHANGED <<lateVars, pc, raised, warned, rng_draws, partial_labels, factorVars, lifeVars, random_state, learnerVars, chunkVars,
                 num_constraints, same_length, same_label, it, pos_a, pos_b,
                 neg_c, neg_d, inputVars>>

\* line 54: the round's anchors are used up
PairsRoundEnd ==
  /\ pc = "for"
  /\ anchors_left = 0
  /\ it' = it + 1
  /\ pc' = "while"
  /\ UNCHANGED <<lateVars, raised, warned, rng_draws, partial_labels, factorVars, lifeVars, rngVars, learnerVars, chunkVars,
                 num_constraints, same_length, same_label, ab, anchors_left,
                 pos_a, pos_b, neg_c, neg_d, inputVars>>

\* lines 43, 55-57: the loop ends; the shortfall warning
PairsLoopExit ==
  /\ pc = "while"
  /\ ~PairsLoopCond(it, ab, num_constraints)
  /\ warned' = WarnIfShort(warned, ab, same_label, num_constraints)
  /\ pc' = "after"
  /\ UNCHANGED <<lateVars, raised, rng_draws, partial_labels, factorVars, lifeVars, rngVars, learnerVars, chunkVars, pairVars,
                 inputVars>>

\* lines 58-59, 27-29: _pairs(same_label=True) returns, a and b are unpacked,
\* _pairs(same_label=False) is entered
PairsReturnSimilar ==
  /\ pc = "after"
  /\ same_label
  /\ \E lst \in Orderings(ab) :
       LET rows == PairRows(partial_labels, Take(lst, num_constraints))
       IN  IF rows = <<>>
             THEN /\ raised' = UnpackError
                  /\ pc' = "raised"
                  /\ UNCHANGED <<pos_a, pos_b, same_label, ab, it>>
             ELSE /\ pos_a' = rows[1]
                  /\ pos_b' = rows[2]
                  /\ same_label' = FALSE
                  /\ ab' = {}
                  /\ it' = 0
                  /\ pc' = "while"
                  /\ raised' = raised
  /\ UNCHANGED <<lateVars, warned, rng_draws, partial_labels, factorVars, lifeVars, rngVars, learnerVars, chunkVars,
                 num_constraints, same_length, anchors_left, neg_c, neg_d,
                 inputVars>>

\* lines 58-59, 29-34: _pairs(same_label=False) returns, c and d are
\* unpacked, the four arrays are returned, cut to one length if same_length
PairsReturnDissimilar ==
  /\ pc = "after"
  /\ ~same_label
  /\ \E lst \in Orderings(ab), sl \in BOOLEAN :
       LET rows == PairRows(partial_labels, Take(lst, num_constraints))
       IN  IF rows = <<>>
             THEN /\ raised' = UnpackError
                  /\ pc' = "raised"
                  /\ UNCHANGED <<pos_a, pos_b, neg_c, neg_d, same_length>>
             ELSE LET n == IF Len(pos_a) < Len(rows[1]) THEN Len(pos_a)
                                                        ELSE Len(rows[1])
                      cut == sl /\ Len(pos_a) # Len(rows[1])
                  IN  /\ same_length' = sl
                      /\ pos_a' = IF cut THEN Take(pos_a, n) ELSE pos_a
                      /\ pos_b' = IF cut THEN Take(pos_b, n) ELSE pos_b
                      /\ neg_c' = IF cut THEN Take(rows[1], n) ELSE rows[1]
                      /\ neg_d' = IF cut THEN Take(rows[2], n) ELSE rows[2]
                      /\ pc' = "done"
                      /\ raised' = raised
  /\ UNCHANGED <<lateVars, warned, rng_draws, partial_labels, factorVars, lifeVars, rngVars, learnerVars, chunkVars,
                 num_constraints, same_label, ab, it, anchors_left, inputVars>>

InitPairs ==
  /\ Quiet
  /\ partial_labels \in PairLabelVectors
  /\ ChunksIdle
  /\ PairsIdle
  /\ InputIdle
  /\ LearnerIdle
  /\ MoreIdle

NextPairs ==
  \/ PairsCall \/ PairsRoundStart \/ PairsDraw \/ PairsRoundEnd
  \/ PairsLoopExit \/ PairsReturnSimilar \/ PairsReturnDissimilar

SpecPairs == InitPairs /\ [][NextPairs]_vars

\* ------------------------------------------------------ _util.check_input
\* An array is its shape and who formed it (the caller or the preprocessor);
\* its values are not modelled.  A preprocessor is None, a callable that
\* raises, a callable that returns a 0-d value, or a callable that returns,
\* for n indicators, an array of shape (n,) + features.
Array(shape, by) == [shape |-> shape, by |-> by]

\* input_data.ndim
Ndim(x) == Len(x.shape)

Dims == 0 .. MaxDim

\* the shapes of rank 0 to 4
Shapes == UNION {[1 .. r -> Dims] : r \in 0 .. 4}

Preprocessors ==
  {[kind |-> "None"], [kind |-> "raises"], [kind |-> "scalar"]}
    \cup {[kind |-> "array", features |-> f] :
            f \in UNION {[1 .. r -> Dims] : r \in 0 .. 2}}

TupleSizes == {[kind |-> "None"]} \cup {[kind |-> "int", value |-> k] : k \in 1 .. MaxDim}

Estimators ==
  {[kind |-> "None"], [kind |-> "str", name |-> "NCA"],
   [kind |-> "instance", class |-> "NCA"]}

\* '%d' / '{}' of a small number
Str(n) ==
  CASE n = 0 -> "0" [] n = 1 -> "1" [] n = 2 -> "2" [] n = 3 -> "3"
    [] n = 4 -> "4" [] n = 5 -> "5" [] OTHER -> "many"

\* make_name: the estimator's name, or the string given
make_name(est) ==
  IF est.kind # "None"
    THEN IF est.kind = "str" THEN [kind |-> "str", name |-> est.name]
                             ELSE [kind |-> "str", name |-> est.class]
    ELSE [kind |-> "None"]

\* make_context
make_context(est) ==
  LET estimator_name == make_name(est)
  IN  IF estimator_name.kind # "None" THEN " by " \o estimator_name.name ELSE ""

\* code_str['expected_input']
expected_input(digit) ==
  CASE digit = 1 -> "2D array of formed points"
    [] digit = 2 -> "3D array of formed tuples"
    [] digit = 3 -> "1D array of indicators or 2D array of formed points"
    [] digit = 4 -> "2D array of indicators or 3D array of formed tuples"

\* code_str['additional_context']
additional_context_Swapped(digit) ==
  CASE digit = 0 -> ""
    [] digit = 1 -> " when using a preprocessor"
    [] digit = 2 -> " after the preprocessor has been applied"
additional_context(digit) ==
  CASE digit = 0 -> ""
    [] digit = 2 -> " when using a preprocessor"
    [] digit = 1 -> " after the preprocessor has been applied"

\* code_str['possible_preprocessor']
possible_preprocessor(digit) ==
  CASE digit = 0 -> ""
    [] digit = 1 -> " and/or use a preprocessor"

\* make_error_input: the ValueError of a three-digit code.  {input_data} in
\* the text stands for the printed array, which the record carries.
make_error_input(code, data, context) ==
  [type |-> "ValueError",
   text |-> expected_input(code \div 100) \o " expected" \o context
            \o additional_context((code \div 10) % 10)
            \o ". Found " \o Str(Ndim(data)) \o "D array instead:\ninput={input_data}"
            \o ". Reshape your data" \o possible_preprocessor(code % 10) \o ".\n",
   input_data |-> data]

\* what a function hands back: an exception, or a value; calls counts the
\* calls it made of the preprocessor
Raise(e, n) == [exc |-> e, val |-> Array(<<>>, "nobody"), calls |-> n]
Return(x, n) == [exc |-> NoException, val |-> x, calls |-> n]

PreprocessorError == [type |-> "PreprocessorError", text |-> "", input_data |-> Array(<<>>, "nobody")]

\* preprocess_points: preprocessor(points)
preprocess_points(points, prep) ==
  CASE prep.kind = "raises" -> Raise(PreprocessorError, 1)
    [] prep.kind = "scalar" -> Return(Array(<<>>, "preprocessor"), 1)
    [] prep.kind = "array" ->
         Return(Array(<<points.shape[1]>> \o prep.features, "preprocessor"), 1)

\* preprocess_tuples: np.column_stack of preprocessor(tuples[:, i])[:, np.newaxis]
\* for the columns i.  No column leaves column_stack nothing to stack, and a
\* 0-d value cannot be indexed: both are raised as PreprocessorError.
preprocess_tuples(tuples, prep) ==
  LET n == tuples.shape[1]
      k == tuples.shape[2]
  IN  CASE k = 0 -> Raise(PreprocessorError, 0)
        [] prep.kind = "raises" -> Raise(PreprocessorError, 1)
        [] prep.kind = "scalar" -> Raise(PreprocessorError, 1)
        [] prep.kind = "array" ->
             Return(Array(<<n, k>> \o prep.features, "preprocessor"), k)

\* check_array(input_data, allow_nd=True, ensure_2d=False, **args_for_sk_checks)
\* of scikit-learn: it returns the array in its shape, or raises ValueError
SklearnError == [type |-> "ValueError", text |-> "check_array", input_data |-> Array(<<>>, "nobody")]

\* check_tuple_size
check_tuple_size_Any(tuples, size, context) == NoException
check_tuple_size(tuples, size, context) ==
  IF size.kind # "None" /\ tuples.shape[2] # size.value
    THEN [type |-> "ValueError",
          text |-> "Tuples of " \o Str(size.value) \o " element(s) expected" \o context
                   \o ". Got tuples of " \o Str(tuples.shape[2])
                   \o " element(s) instead (shape={shape}):\ninput={input_data}.\n",
          input_data |-> tuples]
    ELSE NoException

\* lines 165-172: the number of features of the tuples
IndexError == [type |-> "IndexError", text |-> "tuple index out of range", input_data |-> Array(<<>>, "nobody")]

FeaturesError(data, minf, context) ==
  [type |-> "ValueError",
   text |-> "Found array with " \o Str(data.shape[3]) \o " feature(s) (shape={shape}) while"
            \o " a minimum of " \o Str(minf) \o " is required" \o context \o ".",
   input_data |-> data]

check_n_features(data, minf, context) ==
  IF minf > 0
    THEN IF Ndim(data) < 3 THEN IndexError
         ELSE IF data.shape[3] < minf THEN FeaturesError(data, minf, context)
         ELSE NoException
    ELSE NoException

\* lines 161-182 of check_input_tuples, on the array the routing left
tuples_after_routing(data, applied, ncalls, context, sk_ok, minf, size) ==
  IF ~sk_ok THEN Raise(SklearnError, ncalls)
  ELSE IF check_n_features(data, minf, context) # NoException
    THEN Raise(check_n_features(data, minf, context), ncalls)
  ELSE IF Ndim(data) # 3
    THEN Raise(make_error_input(IF applied THEN 211 ELSE 201, data, context), ncalls)
  ELSE IF check_tuple_size(data, size, context) # NoException
    THEN Raise(check_tuple_size(data, size, context), ncalls)
  ELSE Return(data, ncalls)

\* check_input_tuples
check_input_tuples(data, context, prep, sk_ok, minf, size) ==
  IF Ndim(data) = 2
    THEN IF prep.kind # "None"
           THEN LET formed == preprocess_tuples(data, prep)
                IN  IF formed.exc # NoException THEN formed
                    ELSE tuples_after_routing(formed.val, TRUE, formed.calls,
                                              context, sk_ok, minf, size)
           ELSE Raise(make_error_input(201, data, context), 0)
  ELSE IF Ndim(data) = 3
    THEN tuples_after_routing(data, FALSE, 0, context, sk_ok, minf, size)
  ELSE IF prep.kind # "None"
    THEN Raise(make_error_input(420, data, context), 0)
    ELSE Raise(make_error_input(200, data, context), 0)

\* lines 201-209 of check_input_classic, on the array the routing left
classic_after_routing(data, applied, ncalls, context, sk_ok) ==
  IF ~sk_ok THEN Raise(SklearnError, ncalls)
  ELSE IF Ndim(data) # 2
    THEN Raise(make_error_input(IF applied THEN 111 ELSE 101, data, context), ncalls)
  ELSE Return(data, ncalls)

\* check_input_classic
check_input_classic(data, context, prep, sk_ok) ==
  IF Ndim(data) = 1
    THEN IF prep.kind # "None"
           THEN LET formed == preprocess_points(data, prep)
                IN  IF formed.exc # NoException THEN formed
                    ELSE classic_after_routing(formed.val, TRUE, formed.calls,
                                               context, sk_ok)
           ELSE Raise(make_error_input(101, data, context), 0)
  ELSE IF Ndim(data) = 2
    THEN classic_after_routing(data, FALSE, 0, context, sk_ok)
  ELSE IF prep.kind # "None"
    THEN Raise(make_error_input(320, data, context), 0)
    ELSE Raise(make_error_input(100, data, context), 0)

\* lines 138-140
UnknownTypeError == [type |-> "ValueError", text |-> "Unknown value {} for type_of_inputs. Valid values are 'classic' or 'tuples'.", input_data |-> Array(<<>>, "nobody")]

\* the end of a call: the exception is raised or the value returned
Finish(out) ==
  /\ preprocessor_calls' = out.calls
  /\ IF out.exc # NoException
       THEN /\ raised' = out.exc
            /\ pc' = "raised"
            /\ result' = result
       ELSE /\ raised' = raised
            /\ pc' = "done"
            /\ result' = out.val

\* lines 105-128: the arguments; input_data made an array, as given
CheckInputCall ==
  /\ pc = "idle"
  /\ type_of_inputs' \in {"classic", "tuples", "other"}
  /\ \E shape \in Shapes : input_data' = Array(shape, "caller")
  /\ preprocessor' \in Preprocessors
  /\ tuple_size' \in TupleSizes
  /\ estimator' \in Estimators
  /\ ensure_min_features' \in {0, 1}
  /\ sk_accepts' \in BOOLEAN
  /\ pc' = "route"
  /\ UNCHANGED <<raised, warned, rng_draws, partial_labels, moreVars, learnerVars, chunkVars, pairVars,
                 preprocessor_calls, result>>

\* lines 130-132, 142: check_input_classic, and the return
CheckInputClassic ==
  /\ pc = "route"
  /\ type_of_inputs = "classic"
  /\ Finish(check_input_classic(input_data, make_context(estimator), preprocessor,
                                sk_accepts))
  /\ UNCHANGED <<warned, rng_draws, partial_labels, moreVars, learnerVars, chunkVars, pairVars,
                 type_of_inputs, input_data, preprocessor, tuple_size, estimator,
                 ensure_min_features, sk_accepts>>

\* lines 134-136, 142: check_input_tuples, and the return
CheckInputTuples ==
  /\ pc = "route"
  /\ type_of_inputs = "tuples"
  /\ Finish(check_input_tuples(input_data, make_context(estimator), preprocessor,
                               sk_accepts, ensure_min_features, tuple_size))
  /\ UNCHANGED <<warned, rng_draws, partial_labels, moreVars, learnerVars, chunkVars, pairVars,
                 type_of_inputs, input_data, preprocessor, tuple_size, estimator,
                 ensure_min_features, sk_accepts>>

\* lines 138-140: any other type_of_inputs
CheckInputUnknown ==
  /\ pc = "route"
  /\ type_of_inputs \notin {"classic", "tuples"}
  /\ Finish(Raise(UnknownTypeError, 0))
  /\ UNCHANGED <<warned, rng_draws, partial_labels, moreVars, learnerVars, chunkVars, pairVars,
                 type_of_inputs, input_data, preprocessor, tuple_size, estimator,
                 ensure_min_features, sk_accepts>>

InitInput ==
  /\ Quiet
  /\ partial_labels = <<>>
  /\ ChunksIdle
  /\ PairsIdle
  /\ InputIdle
  /\ LearnerIdle
  /\ MoreIdle

NextInput ==
  CheckInputCall \/ CheckInputClassic \/ CheckInputTuples \/ CheckInputUnknown

SpecInput == InitInput /\ [][NextInput]_vars

\* ------------------------------------------- MahalanobisMixin, base_metric.py
\* A matrix is the sequence of its rows and a row the sequence of its
\* entries.  Entries are integers and the arithmetic is exact; np.sqrt(r) is
\* kept as the real number it denotes, [sqrt |-> r].
Coords == {0, 1}

\* the points: rows of n_features = 2 coordinates
Points == Coords \X Coords

\* the data sets the caller holds: one to three points
Datasets == UNION {[1 .. n -> Points] : n \in 1 .. 3}

Entries == (0 - MaxEntry) .. MaxEntry

\* transformer_ : shape=(num_dims, n_features), with num_dims 1 or 2
Transformers == UNION {[1 .. num_dims -> Entries \X Entries] : num_dims \in 1 .. 2}

\* A.T
Transpose(A) == [j \in 1 .. Len(A[1]) |-> [i \in 1 .. Len(A) |-> A[i][j]]]

\* A.dot(B)
Dot(A, B) ==
  [i \in 1 .. Len(A) |->
    [j \in 1 .. Len(B[1]) |->
      SumSeq([k \in 1 .. Len(B) |-> A[i][k] * B[k][j]])]]

\* np.sqrt
np_sqrt(r) == [sqrt |-> r]

\* line 139-140: X_checked.dot(self.transformer_.T)
transform_NoTranspose(Xs) == [i \in 1 .. Len(Xs) |-> Dot(transformer_, <<Xs[i]>>)[1]]
transform(Xs) == Dot(Xs, Transpose(transformer_))

\* line 143: self.transformer_.T.dot(self.transformer_)
metric == Dot(Transpose(transformer_), transformer_)

\* np.array(list(product(X, X))): the pairs of rows of Xs, first row slowest
product(Xs) ==
  [p \in 1 .. Len(Xs) * Len(Xs) |->
    <<Xs[((p - 1) \div Len(Xs)) + 1], Xs[((p - 1) % Len(Xs)) + 1]>>]

\* the same pairs as indicators: indices into the array, counted from 0
product_of_indices(Xs) ==
  [p \in 1 .. Len(Xs) * Len(Xs) |->
    <<(p - 1) \div Len(Xs), (p - 1) % Len(Xs)>>]

\* check_tuples(pairs, preprocessor=...): pairs of rank 3 are formed pairs;
\* pairs of rank 2 are indicators, which only a preprocessor resolves
CheckTuplesError ==
  [type |-> "ValueError",
   text |-> "3D array of formed tuples expected. Found 2D array instead:\ninput={input_data}. Reshape your data and/or use a preprocessor.\n"]

check_tuples(tuples, has_preprocessor) ==
  IF tuples.ndim = 3 \/ has_preprocessor THEN NoException ELSE CheckTuplesError

\* format_input(pairs): indicators are resolved through preprocessor_
format_input(tuples) ==
  IF tuples.ndim = 3 THEN tuples.rows
  ELSE [p \in 1 .. Len(tuples.rows) |->
         <<preprocessor_.array[tuples.rows[p][1] + 1],
           preprocessor_.array[tuples.rows[p][2] + 1]>>]

\* line 117: pairs[:, 1, :] - pairs[:, 0, :]
differences_Sum(formed) ==
  [p \in 1 .. Len(formed) |->
    [k \in 1 .. Len(formed[p][1]) |-> formed[p][2][k] + formed[p][1][k]]]
differences(formed) ==
  [p \in 1 .. Len(formed) |->
    [k \in 1 .. Len(formed[p][1]) |-> formed[p][2][k] - formed[p][1][k]]]

\* line 120: np.sum(pairwise_diffs**2, axis=-1)
sum_of_squares_NoSquare(D) == [p \in 1 .. Len(D) |-> SumSeq(D[p])]
sum_of_squares(D) ==
  [p \in 1 .. Len(D) |-> SumSeq([k \in 1 .. Len(D[p]) |-> D[p][k] * D[p][k]])]

\* lines 114-120: score_pairs, after check_tuples has accepted the pairs
score_pairs(tuples) ==
  LET formed == format_input(tuples)
      pairwise_diffs == transform(differences(formed))
      sums == sum_of_squares(pairwise_diffs)
  IN  [p \in 1 .. Len(sums) |-> np_sqrt(sums[p])]

\* A learner is fitted: its fit sets transformer_ (lines 85-88), and
\* check_preprocessor (lines 40-44) keeps an array-like preprocessor as an
\* indexer of the array and leaves None as it is.  The caller holds X.
Fit ==
  /\ pc = "idle"
  /\ X' \in Datasets
  /\ transformer_' \in Transformers
  /\ \/ preprocessor_' = [kind |-> "None"]
     \/ preprocessor_' = [kind |-> "array", array |-> X']
  /\ pc' = "fit"
  /\ UNCHANGED <<raised, warned, rng_draws, partial_labels, moreVars, chunkVars, pairVars,
                 inputVars, pairs, scores, X_embedded, M>>

\* lines 91-120: score_pairs on the pairs of rows of X, formed or as indicators
ScorePairs ==
  /\ pc = "fit"
  /\ \/ pairs' = [ndim |-> 3, rows |-> product(X)]
     \/ pairs' = [ndim |-> 2, rows |-> product_of_indices(X)]
  /\ LET e == check_tuples(pairs', preprocessor_.kind # "None")
     IN  IF e # NoException
           THEN /\ raised' = e
                /\ pc' = "raised"
                /\ scores' = scores
           ELSE /\ raised' = raised
                /\ pc' = "scored"
                /\ scores' = score_pairs(pairs')
  /\ UNCHANGED <<warned, rng_draws, partial_labels, moreVars, chunkVars, pairVars,
                 inputVars, X, transformer_, preprocessor_, X_embedded, M>>

\* lines 122-140: transform on the rows of X
Transform ==
  /\ pc = "fit"
  /\ X_embedded' = transform(X)
  /\ pc' = "transformed"
  /\ UNCHANGED <<raised, warned, rng_draws, partial_labels, moreVars, chunkVars, pairVars,
                 inputVars, X, transformer_, preprocessor_, pairs, scores, M>>

\* lines 142-143: metric
Metric ==
  /\ pc = "fit"
  /\ M' = metric
  /\ pc' = "metric"
  /\ UNCHANGED <<raised, warned, rng_draws, partial_labels, moreVars, chunkVars, pairVars,
                 inputVars, X, transformer_, preprocessor_, pairs, scores,
                 X_embedded>>

\* no learner fitted yet
InitLearner ==
  /\ Quiet
  /\ partial_labels = <<>>
  /\ ChunksIdle
  /\ PairsIdle
  /\ InputIdle
  /\ LearnerIdle
  /\ MoreIdle

NextLearner == Fit \/ ScorePairs \/ Transform \/ Metric

SpecLearner == InitLearner /\ [][NextLearner]_vars

\* -------------------------- MahalanobisMixin.transformer_from_metric, lines 145-169
\* The entries of a metric are real numbers kept to the orders that decide
\* the code's comparisons: <<c0, c1, c2>> is c0 + c1 * s + c2 * s^2, where
\* s^2 = 1e-10 is below the absolute tolerance 1e-8 of np.isclose and
\* s = 1e-5, its root, is above it.  Terms beyond s^2 are dropped.  NaN is
\* the tuple <<"nan">>.
NaN == <<"nan">>

Real(c0, c1, c2) == <<c0, c1, c2>>

Zero == Real(0, 0, 0)

real_add(x, y) ==
  IF x = NaN \/ y = NaN THEN NaN
  ELSE Real(x[1] + y[1], x[2] + y[2], x[3] + y[3])

real_sub(x, y) ==
  IF x = NaN \/ y = NaN THEN NaN
  ELSE Real(x[1] - y[1], x[2] - y[2], x[3] - y[3])

real_mul(x, y) ==
  IF x = NaN \/ y = NaN THEN NaN
  ELSE Real(x[1] * y[1], x[1] * y[2] + x[2] * y[1],
            x[1] * y[3] + x[2] * y[2] + x[3] * y[1])

Sgn(n) == IF n > 0 THEN 1 ELSE IF n < 0 THEN -1 ELSE 0

Abs(n) == IF n < 0 THEN 0 - n ELSE n

\* the sign of a real number: that of its leading term
Sign(x) ==
  IF x[1] # 0 THEN Sgn(x[1]) ELSE IF x[2] # 0 THEN Sgn(x[2]) ELSE Sgn(x[3])

IsSquare(n) == n >= 0 /\ \E k \in 0 .. n : k * k = n

IntSqrt(n) == CHOOSE k \in 0 .. n : k * k = n

\* np.sqrt of a number without s term: NaN for a negative number, the root
\* of the leading term else; the root of c2 * s^2 is sqrt(c2) * s
real_sqrt(x) ==
  CASE x = NaN -> NaN
    [] x # NaN /\ Sign(x) < 0 -> NaN
    [] x # NaN /\ x[1] > 0 /\ x[2] = 0 -> Real(IntSqrt(x[1]), 0, 0)
    [] x # NaN /\ x[1] = 0 /\ x[2] = 0 /\ x[3] >= 0 -> Real(0, IntSqrt(x[3]), 0)

\* np.isclose(a, b): |a - b| <= atol + rtol * |b|, atol = 1e-8, rtol = 1e-5
isclose(x, y) ==
  /\ x # NaN /\ y # NaN
  /\ x[1] = y[1]
  /\ Abs(x[2] - y[2]) <= Abs(y[1])

\* np.allclose(A, B)
allclose(A, B) ==
  \A i \in 1 .. Len(A) : \A j \in 1 .. Len(A) : isclose(A[i][j], B[i][j])

\* np.diag(np.diag(metric))
diag_of_diag(A) ==
  [i \in 1 .. Len(A) |-> [j \in 1 .. Len(A) |-> IF i = j THEN A[i][j] ELSE Zero]]

\* np.linalg.det, of a matrix of one or two rows
det(A) ==
  IF Len(A) = 1 THEN A[1][1]
  ELSE real_sub(real_mul(A[1][1], A[2][2]), real_mul(A[1][2], A[2][1]))

\* np.sqrt(metric), entry by entry
sqrt_entries(A) == [i \in 1 .. Len(A) |-> [j \in 1 .. Len(A) |-> real_sqrt(A[i][j])]]

LinAlgError == [type |-> "LinAlgError", text |-> "Matrix is not positive definite"]

Returned(x) == [exc |-> NoException, val |-> x]

Thrown(e) == [exc |-> e, val |-> <<>>]

\* cholesky(metric).T of a matrix ((a, b), (b, c)) of two rows: the factor
\* is ((sqrt(a), 0), (b / sqrt(a), sqrt(c - b^2 / a))), LinAlgError unless a
\* and c - b^2 / a are positive
cholesky_T(A) ==
  LET a == A[1][1][1]
      b == A[2][1][1]
      c == A[2][2][1]
  IN  IF a > 0 /\ a * c - b * b > 0
        THEN LET r == IntSqrt(a)
             IN  Returned(<<<<Real(r, 0, 0), Real(b \div r, 0, 0)>>,
                            <<Zero, Real(IntSqrt(c - ((b * b) \div a)), 0, 0)>>>>)
        ELSE Thrown(LinAlgError)

\* np.maximum(0, w)
np_maximum(w) == IF w # NaN /\ Sign(w) < 0 THEN Zero ELSE w

scaled_row(root, v) == [j \in 1 .. Len(v) |-> real_mul(root, Real(v[j], 0, 0))]

\* lines 168-169, w, V = np.linalg.eigh(metric) and
\* V.T * np.sqrt(np.maximum(0, w[:, None])), for a matrix ((a, b), (b, c)) of
\* two rows with a c = b^2 and b # 0.  The eigenvalues come in ascending
\* order: a + c, of eigenvector (a, b) / sqrt(a (a + c)), and one that is 0
\* or, by rounding or by the s^2 terms of the matrix, below 0, of eigenvector
\* (-b, a) / sqrt(a (a + c)); either eigenvector may come with the other sign.
\* The set of the matrices that can be returned.
eigh_factor(A) ==
  LET a == A[1][1][1]
      b == A[2][1][1]
      c == A[2][2][1]
      r == IntSqrt(Abs(a))
      d2 == a * A[2][2][3] + A[1][1][3] * c - 2 * b * A[2][1][3]
      smalls == IF d2 = 0 THEN {Zero, Real(0, 0, -1)}
                ELSE {Real(0, 0, Sgn(d2) * Sgn(a + c))}
  IN  {IF a + c > 0
         THEN <<scaled_row(real_sqrt(np_maximum(small)), <<0 - sigma * b, sigma * a>>),
                scaled_row(real_sqrt(np_maximum(Real(1, 0, 0))),
                           <<sigma * r, sigma * (b \div r)>>)>>
         ELSE <<scaled_row(real_sqrt(np_maximum(Real(a + c, 0, 0))), <<sigma * a, sigma * b>>),
                scaled_row(real_sqrt(np_maximum(small)), <<0 - sigma * b, sigma * a>>)>>
       : small \in smalls, sigma \in {-1, 1}}

\* lines 164-169: the set of the outcomes of transformer_from_metric(metric)
transformer_from_metric(metric_) ==
  IF allclose(metric_, diag_of_diag(metric_))
    THEN {Returned(sqrt_entries(metric_))}
    ELSE IF ~isclose(det(metric_), Zero)
      THEN {cholesky_T(metric_)}
      ELSE {Returned(L) : L \in eigh_factor(metric_)}

\* the terms of the entries of a metric: its diagonal has leading terms from
\* -1 on, and every entry may differ from its leading term by s^2
DiagonalTerms == -1 .. MaxMetricEntry

OffDiagonalTerms == -2 .. 2

SmallTerms == {-1, 0, 1}

SymmetricMatrices ==
  {<<<<Real(a, 0, a2)>>>> : a \in DiagonalTerms, a2 \in SmallTerms}
  \cup {<<<<Real(a, 0, a2), Real(b, 0, b2)>>, <<Real(b, 0, b2), Real(c, 0, c2)>>>> :
          a \in DiagonalTerms, a2 \in SmallTerms, b \in OffDiagonalTerms,
          b2 \in SmallTerms, c \in DiagonalTerms, c2 \in SmallTerms}

\* a root taken of x is a number of the form kept
ExactRoot(x) ==
  \/ Sign(x) < 0
  \/ x[1] > 0 /\ IsSquare(x[1])
  \/ x[1] = 0 /\ IsSquare(x[3])

\* the matrices whose factor has entries of the form kept
Representable(A) ==
  IF allclose(A, diag_of_diag(A))
    THEN \A i \in 1 .. Len(A) : \A j \in 1 .. Len(A) : ExactRoot(A[i][j])
    ELSE LET a == A[1][1][1]
             b == A[2][1][1]
             c == A[2][2][1]
             d2 == a * A[2][2][3] + A[1][1][3] * c - 2 * b * A[2][1][3]
         IN  IF ~isclose(det(A), Zero)
               THEN \/ ~(a > 0 /\ a * c - b * b > 0)
                    \/ /\ IsSquare(a) /\ b % IntSqrt(a) = 0
                       /\ IsSquare(c - ((b * b) \div a))
               ELSE /\ IsSquare(Abs(a)) /\ b % IntSqrt(Abs(a)) = 0
                    /\ d2 * (a + c) <= 0

MetricInputs == {A \in SymmetricMatrices : Representable(A)}

\* lines 145-169: a call of transformer_from_metric
TransformerFromMetric ==
  /\ pc = "idle"
  /\ metric_arg' \in MetricInputs
  /\ \E out \in transformer_from_metric(metric_arg') :
       IF out.exc # NoException
         THEN /\ raised' = out.exc
              /\ pc' = "raised"
              /\ factor' = factor
         ELSE /\ raised' = raised
              /\ pc' = "factored"
              /\ factor' = out.val
  /\ UNCHANGED <<lateVars, warned, rng_draws, partial_labels, chunkVars, pairVars,
                 inputVars, learnerVars, lifeVars, rngVars>>

InitFactor ==
  /\ Quiet
  /\ partial_labels = <<>>
  /\ ChunksIdle
  /\ PairsIdle
  /\ InputIdle
  /\ LearnerIdle
  /\ MoreIdle

NextFactor == TransformerFromMetric

SpecFactor == InitFactor /\ [][NextFactor]_vars

\* --------------------- the life of a learner: Covariance.fit, MLKR.fit and
\* --------------------- the calls of MahalanobisMixin on the learner
\* An array is an object: heap[i] is the content of the array of identity i,
\* and an attribute that is an array holds the identity.  The content of a
\* matrix is the sequence of its rows, of real numbers as above.
IntValue(n) == [kind |-> "int", value |-> n]

BoolValue(b) == [kind |-> "bool", value |-> b]

NdArray(i) == [kind |-> "ndarray", id |-> i]

\* self.<name> = value
setattr(dict, name, value) ==
  [a \in (DOMAIN dict) \cup {name} |-> IF a = name THEN value ELSE dict[a]]

hasattr(dict, name) == name \in DOMAIN dict

\* what a call has done so far: the attributes, the arrays, the exception
\* raised if any, the value returned, the warnings emitted and the
\* computations started
Outcome(dict, arrays, exc, val, warnings, started) ==
  [dict |-> dict, heap |-> arrays, exc |-> exc, val |-> val,
   warnings |-> warnings, work |-> started]

\* self.<name> = <an array just computed>: the array is a new object
assign_array_InPlace(dict, arrays, name, content) ==
  IF hasattr(dict, name) /\ dict[name].kind = "ndarray"
    THEN [dict |-> dict, heap |-> [arrays EXCEPT ![dict[name].id] = content]]
    ELSE [dict |-> setattr(dict, name, NdArray(Len(arrays) + 1)),
          heap |-> Append(arrays, content)]
assign_array(dict, arrays, name, content) ==
  [dict |-> setattr(dict, name, NdArray(Len(arrays) + 1)),
   heap |-> Append(arrays, content)]

\* base_metric.py lines 40-44, check_preprocessor: the learners are built
\* without preprocessor, which is not array-like
check_preprocessor(dict) == setattr(dict, "preprocessor_", dict["preprocessor"])

InvalidInput == [type |-> "ValueError", text |-> "invalid input"]

\* _prepare_inputs: check_preprocessor, then the validation of the data,
\* which raises for data that are not valid
prepare_inputs(dict, data) ==
  [dict |-> check_preprocessor(dict),
   exc |-> IF data.valid THEN NoException ELSE InvalidInput]

\* the integer n as a real number
FromInt(n) == Real(n, 0, 0)

RealMatrix(rows) ==
  [i \in 1 .. Len(rows) |-> [j \in 1 .. Len(rows[i]) |-> FromInt(rows[i][j])]]

\* a 0-d array and an array of rank 2
Scalar(x) == [ndim |-> 0, val |-> x]

Matrix(rows) == [ndim |-> 2, val |-> rows]

\* What Covariance.fit reads of a data set X: whether it is valid, and its
\* covariance np.cov(X, rowvar=False), which is a 0-d array when X has one
\* feature.  The covariances are positive semi-definite, of determinant 1
\* or 0.
CovarianceData ==
  {[valid |-> FALSE, X |-> "X0", cov |-> Scalar(FromInt(1))],
   [valid |-> TRUE, X |-> "X1", cov |-> Scalar(FromInt(1))],
   [valid |-> TRUE, X |-> "X2", cov |-> Matrix(RealMatrix(<<<<1, 0>>, <<0, 1>>>>))],
   [valid |-> TRUE, X |-> "X3", cov |-> Matrix(RealMatrix(<<<<2, 1>>, <<1, 1>>>>))],
   [valid |-> TRUE, X |-> "X4", cov |-> Matrix(RealMatrix(<<<<1, 1>>, <<1, 1>>>>))],
   [valid |-> TRUE, X |-> "X5", cov |-> Matrix(RealMatrix(<<<<0, 0>>, <<0, 0>>>>))]}

SingularMatrix == [type |-> "LinAlgError", text |-> "Singular matrix"]

\* covariance.py line 39: 1./self.M_, of a number whose inverse is kept
reciprocal(x) == IF x = FromInt(1) \/ x = FromInt(-1) THEN x ELSE NaN

\* covariance.py line 41: np.linalg.inv of a matrix of two rows with integer
\* entries and determinant 1, -1 or 0
np_linalg_inv(A) ==
  LET dt == det(A)[1]
  IN  IF dt = 0 THEN Thrown(SingularMatrix)
      ELSE Returned(<<<<FromInt(dt * A[2][2][1]), FromInt(0 - dt * A[1][2][1])>>,
                      <<FromInt(0 - dt * A[2][1][1]), FromInt(dt * A[1][1][1])>>>>)

\* np.atleast_2d
np_atleast_2d(a) == IF a.ndim = 0 THEN <<<<a.val>>>> ELSE a.val

\* covariance.py lines 37-43, after _prepare_inputs has returned: the set of
\* the outcomes
covariance_after_inputs(dict, arrays, data) ==
  LET s36 == assign_array(dict, arrays, "X_", data.X)
      s37 == assign_array(s36.dict, s36.heap, "M_", data.cov)
      inv == IF data.cov.ndim = 0
               THEN Returned(Scalar(reciprocal(data.cov.val)))
               ELSE LET r == np_linalg_inv(data.cov.val)
                    IN  IF r.exc # NoException THEN r ELSE Returned(Matrix(r.val))
  IN  IF inv.exc # NoException
        THEN {Outcome(s37.dict, s37.heap, inv.exc, <<>>, <<>>,
                      <<"np.cov", "np.linalg.inv">>)}
        ELSE LET s39 == assign_array(s37.dict, s37.heap, "M_", inv.val)
             IN  {IF out.exc # NoException
                    THEN Outcome(s39.dict, s39.heap, out.exc, <<>>, <<>>,
                                 <<"np.cov", "np.linalg.inv", "transformer_from_metric">>)
                    ELSE LET s43 == assign_array(s39.dict, s39.heap, "transformer_",
                                                 out.val)
                         IN  Outcome(s43.dict, s43.heap, NoException, "self", <<>>,
                                     <<"np.cov", "np.linalg.inv",
                                       "transformer_from_metric">>)
                  : out \in transformer_from_metric(np_atleast_2d(inv.val))}

\* covariance.py lines 31-44, Covariance.fit(X)
covariance_fit(dict, arrays, data) ==
  LET checked == prepare_inputs(dict, data)
  IN  IF checked.exc # NoException
        THEN {Outcome(checked.dict, arrays, checked.exc, <<>>, <<>>, <<>>)}
        ELSE covariance_after_inputs(checked.dict, arrays, data)

\* What MLKR.fit reads of the data X, y: whether they are valid, the shape
\* (n, d) of X and the length of y.
MLKRData ==
  {[valid |-> FALSE, n |-> 2, d |-> 2, y_len |-> 2],
   [valid |-> TRUE, n |-> 2, d |-> 2, y_len |-> 2],
   [valid |-> TRUE, n |-> 2, d |-> 2, y_len |-> 3]}

LengthsMismatch(n, l) ==
  [type |-> "ValueError", text |-> "Data and label lengths mismatch: %d != %d",
   args |-> <<n, l>>]

ConvergenceWarning ==
  [category |-> "ConvergenceWarning", text |-> "[{}] MLKR did not converge: {}"]

\* minimize(self._loss, A.ravel(), ..., options=dict(maxiter=self.max_iter)),
\* for max_iter = 1: the results, of the length of A.ravel(), with their
\* flag of success, the iterations run (res.nit) and the calls made of
\* _loss.  The solver calls _loss once at A.ravel(); it succeeds at once,
\* without an iteration, or runs its one iteration, which calls _loss
\* again, and stops at max_iter.
minimize(shape) ==
  {[x |-> [k \in 1 .. shape[1] * shape[2] |-> FromInt(1 + k * step)],
    success |-> ok, nit |-> IF ok THEN 0 ELSE 1,
    loss_calls |-> IF ok THEN 1 ELSE 2] :
     step \in {0, 1}, ok \in BOOLEAN}

\* res.x.reshape(A.shape), in C order
reshape(x, shape) ==
  [i \in 1 .. shape[1] |-> [j \in 1 .. shape[2] |-> x[(i - 1) * shape[2] + j]]]

\* mlkr.py line 194, self.n_iter_ += 1, once for each call of _loss
RECURSIVE loss_calls(_, _)
loss_calls(dict, calls) ==
  IF calls = 0 THEN dict
  ELSE loss_calls(setattr(dict, "n_iter_", IntValue(dict["n_iter_"].value + 1)), calls - 1)

\* mlkr.py lines 147-152: the warnings of fit
fit_warnings(verbose, solved) ==
  IF verbose /\ ~solved.success THEN <<ConvergenceWarning>> ELSE <<>>

\* mlkr.py lines 130-133: the shape of A = _initialize_transformer(m, X, y)
initial_shape(dict, data) ==
  <<IF dict["num_dims"] = None THEN data.d ELSE dict["num_dims"].value, data.d>>

\* mlkr.py lines 139-155, for the result solved of minimize
mlkr_after_init(dict, arrays, data, solved) ==
  LET s139 == setattr(dict, "n_iter_", IntValue(0))
      s142 == loss_calls(s139, solved.loss_calls)
      s143 == assign_array(s142, arrays, "transformer_",
                           reshape(solved.x, initial_shape(dict, data)))
  IN  Outcome(s143.dict, s143.heap, NoException, "self",
              fit_warnings(dict["verbose"].value, solved), <<"minimize">>)

\* mlkr.py lines 114-155, MLKR.fit(X, y), for the result solved of minimize
mlkr_fit(dict, arrays, data, solved) ==
  LET checked == prepare_inputs(dict, data)
  IN  IF checked.exc # NoException
        THEN Outcome(checked.dict, arrays, checked.exc, <<>>, <<>>, <<>>)
        ELSE IF data.y_len # data.n
          THEN Outcome(checked.dict, arrays, LengthsMismatch(data.n, data.y_len),
                       <<>>, <<>>, <<>>)
          ELSE mlkr_after_init(checked.dict, arrays, data, solved)

NoAttribute(name) ==
  [type |-> "AttributeError", text |-> "object has no attribute", args |-> <<name>>]

\* self.transformer_, the array
transformer_of(dict, arrays) == arrays[dict["transformer_"].id]

\* np.sum, of real numbers
RECURSIVE RealSum(_, _)
RealSum(f, n) == IF n = 0 THEN Zero ELSE real_add(f[n], RealSum(f, n - 1))

\* L.T.dot(L) for a matrix L of real numbers
RealGram(L) ==
  [i \in 1 .. Len(L[1]) |-> [j \in 1 .. Len(L[1]) |->
    RealSum([k \in 1 .. Len(L) |-> real_mul(L[k][i], L[k][j])], Len(L))]]

\* the pairs of vectors of d features the caller holds
VectorPairs(n_features) ==
  {<<[j \in 1 .. n_features |-> 1], [j \in 1 .. n_features |-> 0]>>,
   <<[j \in 1 .. n_features |-> IF j = 1 THEN 1 ELSE 0],
     [j \in 1 .. n_features |-> IF j = 1 THEN 0 ELSE 1]>>}

\* L.dot(u - v) for a matrix L of real numbers
embedded_difference(L, u, v) ==
  [i \in 1 .. Len(L) |->
    RealSum([j \in 1 .. Len(u) |-> real_mul(L[i][j], FromInt(u[j] - v[j]))], Len(u))]

\* the distance of u and v under L: the root of the sum of the squares
distance_under(L, u, v) ==
  LET e == embedded_difference(L, u, v)
  IN  np_sqrt(RealSum([i \in 1 .. Len(e) |-> real_mul(e[i], e[i])], Len(e)))

\* base_metric.py lines 122-140, transform of the one point u
transform_call(dict, arrays, u) ==
  IF ~hasattr(dict, "transformer_")
    THEN Outcome(dict, arrays, NoAttribute("transformer_"), <<>>, <<>>, <<>>)
    ELSE Outcome(dict, arrays, NoException,
                 <<embedded_difference(transformer_of(dict, arrays), u,
                                       [j \in 1 .. Len(u) |-> 0])>>, <<>>, <<>>)

\* base_metric.py lines 91-120, score_pairs of the one pair (u, v)
score_pairs_call(dict, arrays, u, v) ==
  IF ~hasattr(dict, "preprocessor_")
    THEN Outcome(dict, arrays, NoAttribute("preprocessor_"), <<>>, <<>>, <<>>)
    ELSE IF ~hasattr(dict, "transformer_")
      THEN Outcome(dict, arrays, NoAttribute("transformer_"), <<>>, <<>>, <<>>)
      ELSE Outcome(dict, arrays, NoException,
                   <<distance_under(transformer_of(dict, arrays), u, v)>>, <<>>, <<>>)

\* base_metric.py lines 192-193, predict
predict_call(dict, arrays, u, v) ==
  IF ~hasattr(dict, "preprocessor_")
    THEN Outcome(dict, arrays, NoAttribute("preprocessor_"), <<>>, <<>>, <<>>)
    ELSE score_pairs_call(dict, arrays, u, v)

\* base_metric.py lines 195-197, decision_function
decision_function_call(dict, arrays, u, v) ==
  IF ~hasattr(dict, "preprocessor_")
    THEN Outcome(dict, arrays, NoAttribute("preprocessor_"), <<>>, <<>>, <<>>)
    ELSE predict_call(dict, arrays, u, v)

\* base_metric.py lines 142-143, metric
metric_call_Cached(dict, arrays) ==
  IF ~hasattr(dict, "transformer_")
    THEN Outcome(dict, arrays, NoAttribute("transformer_"), <<>>, <<>>, <<>>)
    ELSE LET stored == assign_array(dict, arrays, "M_",
                                    RealGram(transformer_of(dict, arrays)))
         IN  Outcome(stored.dict, stored.heap, NoException,
                     RealGram(transformer_of(dict, arrays)), <<>>, <<>>)
metric_call(dict, arrays) ==
  IF ~hasattr(dict, "transformer_")
    THEN Outcome(dict, arrays, NoAttribute("transformer_"), <<>>, <<>>, <<>>)
    ELSE Outcome(dict, arrays, NoException,
                 RealGram(transformer_of(dict, arrays)), <<>>, <<>>)

\* transformer_from_metric, called on the learner: lines 145-169 read no
\* attribute
transformer_from_metric_call(dict, arrays, metric_) ==
  {Outcome(dict, arrays, out.exc, out.val, <<>>, <<>>) :
     out \in transformer_from_metric(metric_)}

\* the metrics the caller passes to transformer_from_metric
CallerMetrics ==
  {RealMatrix(<<<<4>>>>), RealMatrix(<<<<1, 0>>, <<0, 4>>>>),
   RealMatrix(<<<<1, -1>>, <<-1, 2>>>>), RealMatrix(<<<<1, 1>>, <<1, 1>>>>),
   RealMatrix(<<<<1, 2>>, <<2, 1>>>>)}

\* get_metric(): the function returned keeps the array that transformer_
\* is at the time of the call
get_metric_call(dict, arrays) ==
  IF ~hasattr(dict, "transformer_")
    THEN Outcome(dict, arrays, NoAttribute("transformer_"), <<>>, <<>>, <<>>)
    ELSE Outcome(dict, arrays, NoException,
                 [kind |-> "function", transformer |-> dict["transformer_"]],
                 <<>>, <<>>)

\* metric_fun(u, v), for a function f that get_metric() returned
metric_fun(arrays, f, u, v) == distance_under(arrays[f.transformer.id], u, v)

\* the number of features of the points the learner accepts
n_features_in(dict, arrays) ==
  IF hasattr(dict, "transformer_") THEN {Len(transformer_of(dict, arrays)[1])}
  ELSE {1, 2}

\* a call on the learner ends with the outcome out
Ends(out, position) ==
  /\ self_dict' = out.dict
  /\ heap' = out.heap
  /\ warned' = warned \o out.warnings
  /\ IF out.exc # NoException
       THEN /\ raised' = out.exc
            /\ pc' = "raised"
            /\ returned' = <<>>
       ELSE /\ raised' = NoException
            /\ pc' = position
            /\ returned' = out.val

\* Covariance().fit(X)
CovarianceFit ==
  /\ learner_class = "Covariance"
  /\ fits < MaxFits
  /\ \E data \in CovarianceData :
       \E out \in covariance_fit(self_dict, heap, data) :
         /\ Ends(out, "fit")
         /\ work' = out.work
  /\ fits' = fits + 1
  /\ UNCHANGED <<lateVars, rng_draws, partial_labels, chunkVars, pairVars, inputVars,
                 learnerVars, factorVars, rngVars, learner_class, metric_funs, res>>

\* MLKR(...).fit(X, y)
MLKRFit ==
  /\ learner_class = "MLKR"
  /\ fits < MaxFits
  /\ \E data \in MLKRData :
       \E solved \in minimize(initial_shape(self_dict, data)) :
         LET out == mlkr_fit(self_dict, heap, data, solved)
         IN  /\ Ends(out, "fit")
             /\ work' = out.work
             /\ res' = IF out.work = <<>> THEN <<>> ELSE solved
  /\ fits' = fits + 1
  /\ UNCHANGED <<lateVars, rng_draws, partial_labels, chunkVars, pairVars, inputVars,
                 learnerVars, factorVars, rngVars, learner_class, metric_funs>>

\* learner.transform([u])
TransformCall ==
  /\ learner_class # "None"
  /\ \E n \in n_features_in(self_dict, heap) : \E uv \in VectorPairs(n) :
       Ends(transform_call(self_dict, heap, uv[1]), "transform")
  /\ UNCHANGED <<lateVars, rng_draws, partial_labels, chunkVars, pairVars, inputVars,
                 learnerVars, factorVars, rngVars, learner_class, metric_funs, fits, work, res>>

\* learner.score_pairs([[u, v]])
ScorePairsCall ==
  /\ learner_class # "None"
  /\ \E n \in n_features_in(self_dict, heap) : \E uv \in VectorPairs(n) :
       Ends(score_pairs_call(self_dict, heap, uv[1], uv[2]), "score_pairs")
  /\ UNCHANGED <<lateVars, rng_draws, partial_labels, chunkVars, pairVars, inputVars,
                 learnerVars, factorVars, rngVars, learner_class, metric_funs, fits, work, res>>

\* learner.predict([[u, v]])
PredictCall ==
  /\ learner_class # "None"
  /\ \E n \in n_features_in(self_dict, heap) : \E uv \in VectorPairs(n) :
       Ends(predict_call(self_dict, heap, uv[1], uv[2]), "predict")
  /\ UNCHANGED <<lateVars, rng_draws, partial_labels, chunkVars, pairVars, inputVars,
                 learnerVars, factorVars, rngVars, learner_class, metric_funs, fits, work, res>>

\* learner.decision_function([[u, v]])
DecisionFunctionCall ==
  /\ learner_class # "None"
  /\ \E n \in n_features_in(self_dict, heap) : \E uv \in VectorPairs(n) :
       Ends(decision_function_call(self_dict, heap, uv[1], uv[2]), "decision_function")
  /\ UNCHANGED <<lateVars, rng_draws, partial_labels, chunkVars, pairVars, inputVars,
                 learnerVars, factorVars, rngVars, learner_class, metric_funs, fits, work, res>>

\* learner.metric()
MetricCall ==
  /\ learner_class # "None"
  /\ Ends(metric_call(self_dict, heap), "metric")
  /\ UNCHANGED <<lateVars, rng_draws, partial_labels, chunkVars, pairVars, inputVars,
                 learnerVars, factorVars, rngVars, learner_class, metric_funs, fits, work, res>>

\* learner.transformer_from_metric(metric)
TransformerFromMetricCall ==
  /\ learner_class # "None"
  /\ \E metric_ \in CallerMetrics :
       \E out \in transformer_from_metric_call(self_dict, heap, metric_) :
         Ends(out, "transformer_from_metric")
  /\ UNCHANGED <<lateVars, rng_draws, partial_labels, chunkVars, pairVars, inputVars,
                 learnerVars, factorVars, rngVars, learner_class, metric_funs, fits, work, res>>

\* metric_fun = learner.get_metric(): the caller keeps the function
GetMetric ==
  /\ learner_class # "None"
  /\ LET out == get_metric_call(self_dict, heap)
     IN  /\ Ends(out, "get_metric")
         /\ metric_funs' = IF out.exc # NoException THEN metric_funs
                           ELSE metric_funs \cup {out.val}
  /\ UNCHANGED <<lateVars, rng_draws, partial_labels, chunkVars, pairVars, inputVars,
                 learnerVars, factorVars, rngVars, learner_class, fits, work, res>>

\* metric_fun(u, v), of a function the caller keeps
MetricFunCall ==
  /\ learner_class # "None"
  /\ \E f \in metric_funs :
       \E uv \in VectorPairs(Len(heap[f.transformer.id][1])) :
         /\ returned' = <<metric_fun(heap, f, uv[1], uv[2])>>
         /\ pc' = "metric_fun"
         /\ raised' = NoException
  /\ UNCHANGED <<lateVars, warned, rng_draws, partial_labels, chunkVars, pairVars, inputVars,
                 learnerVars, factorVars, rngVars, learner_class, self_dict, heap,
                 metric_funs, fits, work, res>>

\* the parameters of the learner, set by __init__: covariance.py lines
\* 28-29 and mlkr.py lines 100-112
NewLearners ==
  {[class |-> "Covariance", dict |-> [a \in {"preprocessor"} |-> None]]}
  \cup {[class |-> "MLKR",
         dict |-> [a \in {"preprocessor", "num_dims", "max_iter", "verbose"} |->
                    CASE a = "preprocessor" -> None
                      [] a = "num_dims" -> num_dims
                      [] a = "max_iter" -> IntValue(1)
                      [] a = "verbose" -> BoolValue(verbose)]] :
          num_dims \in {None, IntValue(1)}, verbose \in BOOLEAN}

\* a learner is built and not fitted
InitLife ==
  /\ Quiet
  /\ partial_labels = <<>>
  /\ ChunksIdle
  /\ PairsIdle
  /\ InputIdle
  /\ LearnerIdle
  /\ FactorIdle
  /\ RngIdle
  /\ LateIdle
  /\ \E new \in NewLearners :
       /\ learner_class = new.class
       /\ self_dict = new.dict
  /\ heap = <<>>
  /\ metric_funs = {}
  /\ fits = 0
  /\ work = <<>>
  /\ res = <<>>
  /\ returned = <<>>

NextLife ==
  \/ CovarianceFit
  \/ MLKRFit
  \/ TransformCall
  \/ ScorePairsCall
  \/ PredictCall
  \/ DecisionFunctionCall
  \/ MetricCall
  \/ TransformerFromMetricCall
  \/ GetMetric
  \/ MetricFunCall

SpecLife == InitLife /\ [][NextLife]_vars

\* ------------------------------------------ _util.check_collapsed_pairs
\* The coordinates of the points are whole multiples of 5e-10, so that the
\* threshold 1e-9 of line 320 is 2 and a norm is the root of an integer.
CollapsedThreshold == 2

\* the coordinates of the points of the pairs checked
PairCoords == {0, 1, 2}

\* the pairs checked: the left point is one of two, the right one any
CheckedPairs ==
  {<<<<l, l>>, <<r1, r2>>>> : l \in {0, 1}, r1 \in PairCoords, r2 \in PairCoords}

\* the arrays of pairs, of shape (n, 2, 2)
PairArrays == UNION {[1 .. n -> CheckedPairs] : n \in 0 .. MaxPairsChecked}

\* pairs[:, 0] - pairs[:, 1]
left_minus_right(rows) ==
  [p \in 1 .. Len(rows) |->
    [k \in 1 .. Len(rows[p][1]) |-> rows[p][1][k] - rows[p][2][k]]]

\* _util.py lines 7-15, vector_norm: np.linalg.norm(X, axis=1)
vector_norm(D) == [p \in 1 .. Len(D) |-> np_sqrt(SumSeq([k \in 1 .. Len(D[p]) |-> D[p][k] * D[p][k]]))]

\* norm < 1e-9, for the root of an integer
below_threshold_LE(norm) == norm.sqrt <= CollapsedThreshold * CollapsedThreshold
below_threshold(norm) == norm.sqrt < CollapsedThreshold * CollapsedThreshold

\* (...).sum(): the number of True
count_true(flags) == Cardinality({p \in 1 .. Len(flags) : flags[p]})

\* the ValueError of lines 322-324, by its two {} fields
CollapsedPairsError(num_ident, n) ==
  [type |-> "ValueError",
   text |-> "{} collapsed pairs found (where the left element is the same as the right element), out of {} pairs in total.",
   args |-> <<num_ident, n>>]

\* lines 319-324, check_collapsed_pairs(pairs): the exception raised
check_collapsed_pairs(rows) ==
  LET norms == vector_norm(left_minus_right(rows))
      num_ident == count_true([p \in 1 .. Len(norms) |-> below_threshold(norms[p])])
  IN  IF num_ident # 0 THEN CollapsedPairsError(num_ident, Len(rows))
      ELSE NoException

\* the caller builds an array of pairs
BuildPairs ==
  /\ pc = "idle"
  /\ \E rows \in PairArrays : pairs' = [ndim |-> 3, rows |-> rows]
  /\ pc' = "pairs built"
  /\ UNCHANGED <<raised, warned, rng_draws, partial_labels, moreVars, chunkVars, pairVars,
                 inputVars, X, transformer_, preprocessor_, scores, X_embedded, M>>

\* check_collapsed_pairs(pairs)
CheckCollapsedPairs ==
  /\ pc = "pairs built"
  /\ LET e == check_collapsed_pairs(pairs.rows)
     IN  /\ raised' = e
         /\ pc' = IF e # NoException THEN "raised" ELSE "pairs checked"
  /\ UNCHANGED <<warned, rng_draws, partial_labels, moreVars, chunkVars, pairVars,
                 inputVars, learnerVars>>

InitCollapsed ==
  /\ Quiet
  /\ partial_labels = <<>>
  /\ ChunksIdle
  /\ PairsIdle
  /\ InputIdle
  /\ LearnerIdle
  /\ MoreIdle

NextCollapsed == BuildPairs \/ CheckCollapsedPairs

SpecCollapsed == InitCollapsed /\ [][NextCollapsed]_vars

\* ------------------- _util.check_input, on arrays of tuples with values
\* An element of an array is the number it holds, its type, and whether it
\* is finite; an array of values has, with its shape, a dtype and the
\* elements of its tuples in C order.
Element(type, n, finite) == [type |-> type, n |-> n, finite |-> finite]

ValuedArray(shape, dtype, values) ==
  [shape |-> shape, by |-> "caller", dtype |-> dtype, values |-> values]

\* the dtypes of the arrays given, and the type of their elements
Dtypes == {"int64", "float32", "float64", "object"}

element_type(dtype) ==
  CASE dtype = "int64" -> "int"
    [] dtype = "float32" -> "float32"
    [] dtype = "float64" -> "float"
    [] dtype = "object" -> "int"

\* the elements an array of a dtype can hold: 0 and 1, and nan for the
\* floating dtypes
ElementsOf(dtype) ==
  {Element(element_type(dtype), n, TRUE) : n \in {0, 1}}
  \cup (IF dtype \in {"float32", "float64"}
          THEN {Element(element_type(dtype), 0, FALSE)} ELSE {})

\* the arrays of n pairs of points of one feature: shape (n, 2, 1), and
\* the same without the last axis: shape (n, 2)
TupleArrays ==
  UNION {{ValuedArray(shape, dtype, values) :
            values \in [1 .. 2 * n -> ElementsOf(dtype)],
            shape \in {<<n, 2, 1>>, <<n, 2>>}} :
         n \in 0 .. MaxTuplesChecked, dtype \in Dtypes}

\* array.astype(np.float64)
astype_float64(x) ==
  [x EXCEPT !.dtype = "float64",
            !.values = [i \in DOMAIN x.values |->
                         Element("float", x.values[i].n, x.values[i].finite)]]

\* check_array(..., dtype='numeric'), line 161 with dtype of line 20: the
\* dtype is kept unless it is object, which is converted to float64
check_array_numeric(x) == IF x.dtype = "object" THEN astype_float64(x) ELSE x

\* whether check_array accepts the array: force_all_finite=True rejects nan
\* and ensure_min_samples=1 an array without rows
sk_accepts_valued(x) ==
  /\ \A i \in DOMAIN x.values : x.values[i].finite
  /\ Len(x.shape) >= 1 => x.shape[1] >= 1

\* check_input(x, type_of_inputs='tuples'), lines 105-182 with the defaults
\* preprocessor=None, tuple_size=None, ensure_min_features=1, estimator=None
check_input_valued(x) ==
  LET out == check_input_tuples(x, make_context(None), None, sk_accepts_valued(x),
                                1, None)
  IN  IF out.exc # NoException THEN out
      ELSE Return(check_array_numeric(out.val), out.calls)

\* result = check_input(x, type_of_inputs='tuples')
ValidateTuples ==
  /\ pc = "idle"
  /\ input_data' \in TupleArrays
  /\ type_of_inputs' = "tuples"
  /\ ensure_min_features' = 1
  /\ sk_accepts' = sk_accepts_valued(input_data')
  /\ LET out == check_input_valued(input_data')
     IN  /\ preprocessor_calls' = out.calls
         /\ IF out.exc # NoException
              THEN /\ raised' = out.exc
                   /\ pc' = "raised"
                   /\ result' = result
              ELSE /\ raised' = raised
                   /\ pc' = "validated"
                   /\ result' = out.val
  /\ UNCHANGED <<warned, rng_draws, partial_labels, moreVars, learnerVars, chunkVars,
                 pairVars, preprocessor, tuple_size, estimator>>

\* result = check_input(result, type_of_inputs='tuples')
ValidateAgain ==
  /\ pc = "validated"
  /\ input_data' = result
  /\ sk_accepts' = sk_accepts_valued(result)
  /\ LET out == check_input_valued(result)
     IN  /\ preprocessor_calls' = out.calls
         /\ IF out.exc # NoException
              THEN /\ raised' = out.exc
                   /\ pc' = "raised"
                   /\ result' = result
              ELSE /\ raised' = raised
                   /\ pc' = "validated again"
                   /\ result' = out.val
  /\ UNCHANGED <<warned, rng_draws, partial_labels, moreVars, learnerVars, chunkVars,
                 pairVars, type_of_inputs, preprocessor, tuple_size, estimator,
                 ensure_min_features>>

InitValid ==
  /\ Quiet
  /\ partial_labels = <<>>
  /\ ChunksIdle
  /\ PairsIdle
  /\ InputIdle
  /\ LearnerIdle
  /\ MoreIdle

NextValid == ValidateTuples \/ ValidateAgain

SpecValid == InitValid /\ [][NextValid]_vars

\* ------------------------- _util.check_input, on pairs given with labels
\* most pairs of an array of pairs given with labels
MaxLabelledPairs == 2

\* The labels y are held in halves, so that 0.5 is a whole number: 2 is the
\* label +1, -2 the label -1, 1 the label 0.5 and 0 the label 0.
YHalves == {-2, 0, 1, 2}

\* the label arrays held by the caller: one label per pair, or one too many
LabelArrays(n) == [1 .. n -> YHalves] \cup [1 .. n + 1 -> YHalves]

\* the pairs given: formed, of shape (n, 2, 1), or indicators, of shape (n, 2)
LabelledPairs ==
  {Array(shape, "caller") :
     shape \in UNION {{<<n, 2, 1>>, <<n, 2>>} : n \in 0 .. MaxLabelledPairs}}

\* ArrayIndexer(X) for points of one feature, or no preprocessor
PairPreprocessors == {None, [kind |-> "array", features |-> <<1>>]}

InconsistentLength ==
  [type |-> "ValueError",
   text |-> "Found input variables with inconsistent numbers of samples: {}",
   input_data |-> Array(<<>>, "nobody")]

\* lines 123-128, check_X_y with the permissive arguments: y is made a 1-d
\* array, and X and y must have the same number of samples
check_X_y(data, labels) ==
  IF Ndim(data) >= 1 /\ data.shape[1] # Len(labels) THEN Raise(InconsistentLength, 0)
  ELSE Return(<<data, labels>>, 0)

\* check_array of line 161 with the defaults: ensure_min_samples=1
sk_accepts_pairs(data) == Ndim(data) >= 1 => data.shape[1] >= 1

\* lines 105-142, check_input(input_data, y, preprocessor=...,
\* type_of_inputs='tuples'): the tuple (input_data, y) of line 142
check_input_labelled(data, labels, prep) ==
  LET xy == check_X_y(data, labels)
  IN  IF xy.exc # NoException THEN xy
      ELSE LET out == check_input_tuples(xy.val[1], make_context(None), prep,
                                         sk_accepts_pairs(xy.val[1]), 1, None)
           IN  IF out.exc # NoException THEN out
               ELSE Return(<<out.val, xy.val[2]>>, out.calls)

\* check_input(pairs, y, preprocessor=preprocessor, type_of_inputs='tuples')
CheckInputLabelled ==
  /\ pc = "idle"
  /\ input_data' \in LabelledPairs
  /\ y_arr' \in LabelArrays(input_data'.shape[1])
  /\ preprocessor' \in PairPreprocessors
  /\ type_of_inputs' = "tuples"
  /\ ensure_min_features' = 1
  /\ sk_accepts' = sk_accepts_pairs(input_data')
  /\ Finish(check_input_labelled(input_data', y_arr', preprocessor'))
  /\ UNCHANGED <<warned, rng_draws, partial_labels, chunkVars, pairVars, learnerVars,
                 factorVars, lifeVars, rngVars, tuple_size, estimator,
                 w_arr, tol, k_genuine, k_impostor, triplets, quadruplets,
                 X_other, scale, indicators, constraints>>

InitLabelled ==
  /\ Quiet
  /\ partial_labels = <<>>
  /\ ChunksIdle
  /\ PairsIdle
  /\ InputIdle
  /\ LearnerIdle
  /\ MoreIdle

NextLabelled == CheckInputLabelled

SpecLabelled == InitLabelled /\ [][NextLabelled]_vars

\* --------------------- MahalanobisMixin.transform, on the caller's arrays
\* the scalars the caller multiplies points by
Scalars == {-1, 5}

\* a + b and c * a, of arrays of the same shape
np_add(A, B) == [i \in 1 .. Len(A) |-> [j \in 1 .. Len(A[i]) |-> A[i][j] + B[i][j]]]

np_multiply(c, A) == [i \in 1 .. Len(A) |-> [j \in 1 .. Len(A[i]) |-> c * A[i][j]]]

\* X[::-1]: the rows of X in reverse order
Reversed(Xs) == [i \in 1 .. Len(Xs) |-> Xs[Len(Xs) + 1 - i]]

\* the arrays of indicators of the rows of Xs, counted from 0: all of them
\* in order, in reverse order, and the first one twice
IndicatorArrays(Xs) ==
  {[i \in 1 .. Len(Xs) |-> i - 1], [i \in 1 .. Len(Xs) |-> Len(Xs) - i], <<0, 0>>}

\* an array of rank 2 of formed points, and one of rank 1 of indicators
FormedPoints(rows) == [ndim |-> 2, rows |-> rows]

Indicators(inds) == [ndim |-> 1, rows |-> inds]

ExpectedTwoD ==
  [type |-> "ValueError", text |-> "Expected 2D array, got 1D array instead:\narray={}.\n"]

\* line 139, check_array(X, accept_sparse=True): ensure_2d is True, so that
\* an array of rank 1 is refused
check_array_2d(arr) ==
  IF arr.ndim # 2 THEN Thrown(ExpectedTwoD) ELSE Returned(arr.rows)

\* lines 139-140, transform(X) of an array of any rank
transform_array(arr) ==
  LET X_checked == check_array_2d(arr)
  IN  IF X_checked.exc # NoException THEN X_checked
      ELSE Returned(transform(X_checked.val))

\* the end of a call of transform
TransformEnds(out, position) ==
  IF out.exc # NoException
    THEN /\ raised' = out.exc
         /\ pc' = "raised"
         /\ X_embedded' = X_embedded
    ELSE /\ raised' = raised
         /\ pc' = position
         /\ X_embedded' = out.val

\* model.transform(X[:10] + X[10:20]), test_embed_is_linear
TransformSum ==
  /\ pc = "fit"
  /\ X_other' \in {Reversed(X), [i \in 1 .. Len(X) |-> <<1, 1>>]}
  /\ TransformEnds(transform_array(FormedPoints(np_add(X, X_other'))), "sum embedded")
  /\ UNCHANGED <<warned, rng_draws, partial_labels, chunkVars, pairVars, inputVars,
                 factorVars, lifeVars, rngVars, X, transformer_, preprocessor_,
                 pairs, scores, M, y_arr, w_arr, tol, k_genuine, k_impostor,
                 triplets, quadruplets, scale, indicators, constraints>>

\* model.transform(5 * X[:10]), test_embed_is_linear
TransformScaled ==
  /\ pc = "fit"
  /\ scale' \in Scalars
  /\ TransformEnds(transform_array(FormedPoints(np_multiply(scale', X))), "scaled embedded")
  /\ UNCHANGED <<warned, rng_draws, partial_labels, chunkVars, pairVars, inputVars,
                 factorVars, lifeVars, rngVars, X, transformer_, preprocessor_,
                 pairs, scores, M, y_arr, w_arr, tol, k_genuine, k_impostor,
                 triplets, quadruplets, X_other, indicators, constraints>>

\* estimator_with_preprocessor.transform(indicators_to_transform), of a
\* learner fitted with the preprocessor X
TransformIndicators ==
  /\ pc = "fit"
  /\ preprocessor_.kind = "array"
  /\ indicators' \in IndicatorArrays(X)
  /\ TransformEnds(transform_array(Indicators(indicators')), "indicators embedded")
  /\ UNCHANGED <<warned, rng_draws, partial_labels, chunkVars, pairVars, inputVars,
                 factorVars, lifeVars, rngVars, X, transformer_, preprocessor_,
                 pairs, scores, M, y_arr, w_arr, tol, k_genuine, k_impostor,
                 triplets, quadruplets, X_other, scale, constraints>>

InitEmbed ==
  /\ Quiet
  /\ partial_labels = <<>>
  /\ ChunksIdle
  /\ PairsIdle
  /\ InputIdle
  /\ LearnerIdle
  /\ MoreIdle

NextEmbed == Fit \/ TransformSum \/ TransformScaled \/ TransformIndicators \/ ScorePairs

SpecEmbed == InitEmbed /\ [][NextEmbed]_vars

\* --------------------------------------------- _util._check_sdp_from_eigen
\* most eigenvalues of an array given to _check_sdp_from_eigen
MaxEigenvalues == 2

\* the eigenvalues and the tolerances given
Eigenvalues == -3 .. 5

EigenArrays == UNION {[1 .. n -> Eigenvalues] : n \in 1 .. MaxEigenvalues}

Tolerances == {-5, -1, 0, 1, 2}

TolError == [type |-> "ValueError", text |-> "tol should be positive."]

NonPSDError == [type |-> "NonPSDError", text |-> "Matrix is not positive semidefinite (PSD)."]

\* any(w < -tol)
any_below_LE(ws, bound) == \E i \in DOMAIN ws : ws[i] <= bound
any_below(ws, bound) == \E i \in DOMAIN ws : ws[i] < bound

\* _check_sdp_from_eigen(w, tol): a negative tolerance is a caller error, an
\* eigenvalue more negative than -tol the non-PSD error; else the flag of
\* strict definiteness, true only if the least eigenvalue exceeds tol
check_sdp_from_eigen(ws, t) ==
  IF t < 0 THEN Thrown(TolError)
  ELSE IF any_below(ws, 0 - t) THEN Thrown(NonPSDError)
  ELSE Returned(\A i \in DOMAIN ws : ws[i] > t)

\* _check_sdp_from_eigen(w, tol)
CheckSdpFromEigen ==
  /\ pc = "idle"
  /\ w_arr' \in EigenArrays
  /\ tol' \in Tolerances
  /\ LET out == check_sdp_from_eigen(w_arr', tol')
     IN  /\ raised' = out.exc
         /\ returned' = out.val
         /\ pc' = IF out.exc # NoException THEN "raised" ELSE "sdp checked"
  /\ UNCHANGED <<warned, rng_draws, partial_labels, chunkVars, pairVars, inputVars,
                 learnerVars, factorVars, rngVars, learner_class, self_dict, heap,
                 metric_funs, fits, work, res, y_arr, k_genuine, k_impostor,
                 triplets, quadruplets, X_other, scale, indicators, constraints>>

InitSdp ==
  /\ Quiet
  /\ partial_labels = <<>>
  /\ ChunksIdle
  /\ PairsIdle
  /\ InputIdle
  /\ LearnerIdle
  /\ MoreIdle

NextSdp == CheckSdpFromEigen

SpecSdp == InitSdp /\ [][NextSdp]_vars

\* ------------------------------------------ Constraints.generate_knntriplets
\* most points of a data set given to generate_knntriplets
MaxKnnPoints == 3

\* the labels of the points: all known, of two classes
KnnLabels == {0, 1}

\* the scenario of test_generate_knntriplets: nine points on a line, of
\* three classes
ScenarioX == [i \in 1 .. 9 |-> <<i - 1, i - 1>>]

ScenarioLabels == [i \in 0 .. 8 |-> (i \div 3) + 1]

\* the data sets and label vectors given: X[i + 1] is the row of point i
KnnInputs ==
  UNION {{[X |-> Xs, y |-> ys] : Xs \in [1 .. n -> Points], ys \in [0 .. n - 1 -> KnnLabels]} :
         n \in 1 .. MaxKnnPoints}
  \cup {[X |-> ScenarioX, y |-> ScenarioLabels]}

\* the square of the Euclidean distance of the points i and j
SquaredDistance(Xs, i, j) ==
  SumSeq([k \in 1 .. Len(Xs[i + 1]) |->
            (Xs[i + 1][k] - Xs[j + 1][k]) * (Xs[i + 1][k] - Xs[j + 1][k])])

\* whether j comes before l among the neighbours of a: it is nearer, or as
\* near and of lower index
ComesBefore(Xs, a, j, l) ==
  \/ SquaredDistance(Xs, a, j) < SquaredDistance(Xs, a, l)
  \/ SquaredDistance(Xs, a, j) = SquaredDistance(Xs, a, l) /\ j < l

\* the k nearest neighbours of a among the candidates, nearest first
RECURSIVE NearestFirst(_, _, _, _)
NearestFirst(Xs, a, candidates, k) ==
  IF k = 0 \/ candidates = {} THEN <<>>
  ELSE LET first == CHOOSE j \in candidates :
                      \A l \in candidates \ {j} : ComesBefore(Xs, a, j, l)
       IN  <<first>> \o NearestFirst(Xs, a, candidates \ {first}, k - 1)

\* the points of the label of a other than a, and the points of other labels
genuine_candidates_WithSelf(labels, a) == {j \in DOMAIN labels : labels[j] = labels[a]}
genuine_candidates(labels, a) == {j \in DOMAIN labels : labels[j] = labels[a]} \ {a}

impostor_candidates(labels, a) == {j \in DOMAIN labels : labels[j] # labels[a]}

\* one triplet for each genuine neighbour and each impostor, the genuine
\* neighbour slowest
combinations(a, genuine, impostors) ==
  [t \in 1 .. Len(genuine) * Len(impostors) |->
    <<a, genuine[((t - 1) \div Len(impostors)) + 1],
         impostors[((t - 1) % Len(impostors)) + 1]>>]

\* the triplets of the points 0 .. n - 1, in the order of the anchors
RECURSIVE knn_triplets(_, _, _, _, _)
knn_triplets(Xs, labels, kg, ki, n) ==
  IF n = 0 THEN <<>>
  ELSE knn_triplets(Xs, labels, kg, ki, n - 1)
       \o combinations(n - 1,
                       NearestFirst(Xs, n - 1, genuine_candidates(labels, n - 1), kg),
                       NearestFirst(Xs, n - 1, impostor_candidates(labels, n - 1), ki))

\* the warnings of the classes that have fewer than k_genuine + 1 members or
\* fewer than k_impostor points of other classes, with the reduced counts
knn_warnings(labels, kg, ki) ==
  LET classes == SortedSeq({labels[i] : i \in DOMAIN labels})
      size(c) == Cardinality({i \in DOMAIN labels : labels[i] = classes[c]})
      others(c) == Cardinality(DOMAIN labels) - size(c)
      genuine(c) ==
        IF size(c) < kg + 1
          THEN <<[text |-> "The class {} has {} elements, which is not sufficient to generate {} genuine neighbors as specified by k_genuine. Will generate {} genuine neighbors instead.\n",
                  args |-> <<classes[c], size(c), kg + 1, size(c) - 1>>]>>
          ELSE <<>>
      impostor(c) ==
        IF others(c) < ki
          THEN <<[text |-> "The class {} has {} elements of other classes, which is not sufficient to generate {} impostor neighbors as specified by k_impostor. Will generate {} impostor neighbors instead.\n",
                  args |-> <<classes[c], others(c), ki, others(c)>>]>>
          ELSE <<>>
      upto[c \in 0 .. Len(classes)] ==
        IF c = 0 THEN <<>> ELSE upto[c - 1] \o genuine(c) \o impostor(c)
  IN  upto[Len(classes)]

\* T = Constraints(y).generate_knntriplets(X, k_genuine, k_impostor)
GenerateKnnTriplets ==
  /\ pc = "idle"
  /\ \E in \in KnnInputs :
       /\ X' = in.X
       /\ partial_labels' = in.y
  /\ k_genuine' \in {1, 2}
  /\ k_impostor' \in {1, 2}
  /\ triplets' = knn_triplets(X', partial_labels', k_genuine', k_impostor', Len(X'))
  /\ warned' = knn_warnings(partial_labels', k_genuine', k_impostor')
  /\ pc' = "triplets generated"
  /\ UNCHANGED <<raised, rng_draws, chunkVars, pairVars, inputVars, factorVars, lifeVars,
                 rngVars, transformer_, preprocessor_, pairs, scores, X_embedded, M,
                 y_arr, w_arr, tol, quadruplets, X_other, scale, indicators, constraints>>

InitKnn ==
  /\ Quiet
  /\ partial_labels = <<>>
  /\ ChunksIdle
  /\ PairsIdle
  /\ InputIdle
  /\ LearnerIdle
  /\ MoreIdle

NextKnn == GenerateKnnTriplets

SpecKnn == InitKnn /\ [][NextKnn]_vars

\* --------------------------------------------------- constraints.wrap_pairs
\* most pairs of one polarity given to wrap_pairs
MaxWrapped == 2

\* An index array is its dtype and its values.  np.array of a list of
\* integers, or of an array of integers, has dtype int64; np.array([]), of
\* an empty list, has dtype float64.
IndexArray(dtype, values) == [dtype |-> dtype, values |-> values]

\* the points indexed: two rows
WrapDatasets == [1 .. 2 -> Points]

\* the pairs of index arrays of one polarity, of one length: arrays of
\* integers, or two empty lists
IndexArrayPairs(n) ==
  UNION {{<<IndexArray("int64", u), IndexArray("int64", v)>> :
            u \in [1 .. k -> 0 .. n - 1], v \in [1 .. k -> 0 .. n - 1]} :
         k \in 0 .. MaxWrapped}
  \cup {<<IndexArray("float64", <<>>), IndexArray("float64", <<>>)>>}

\* the dtype of an array built of two
promote(s, t) == IF s = "float64" \/ t = "float64" THEN "float64" ELSE "int64"

\* np.column_stack((a, b)): one row <<a[i], b[i]>> for each i
np_column_stack(u, v) ==
  IndexArray(promote(u.dtype, v.dtype),
             [i \in 1 .. Len(u.values) |-> <<u.values[i], v.values[i]>>])

\* np.vstack((top, bottom)) and np.concatenate([top, bottom])
np_vstack_Swapped(top, bottom) ==
  IndexArray(promote(top.dtype, bottom.dtype), bottom.values \o top.values)
np_vstack(top, bottom) ==
  IndexArray(promote(top.dtype, bottom.dtype), top.values \o bottom.values)

\* np.ones_like(a) and -np.ones_like(c)
np_ones_like(u) == IndexArray(u.dtype, [i \in 1 .. Len(u.values) |-> 1])

minus(u) == IndexArray(u.dtype, [i \in 1 .. Len(u.values) |-> 0 - u.values[i]])

FloatIndexError ==
  [type |-> "IndexError",
   text |-> "arrays used as indices must be of integer (or boolean) type"]

\* X[constraints]: the rows of X the pairs index; an index array of a
\* floating dtype is refused, empty or not
index_rows(Xs, index) ==
  IF index.dtype # "int64" THEN Thrown(FloatIndexError)
  ELSE Returned([p \in 1 .. Len(index.values) |->
                   <<Xs[index.values[p][1] + 1], Xs[index.values[p][2] + 1]>>])

\* lines 94-102, wrap_pairs(X, constraints)
wrap_pairs(Xs, cons) ==
  LET a == cons[1]
      b == cons[2]
      c == cons[3]
      d == cons[4]
      stacked == np_vstack(np_column_stack(a, b), np_column_stack(c, d))
      labels == np_vstack(np_ones_like(a), minus(np_ones_like(c)))
      formed == index_rows(Xs, stacked)
  IN  IF formed.exc # NoException THEN formed
      ELSE Returned(<<formed.val, labels.values>>)

\* pairs, y = wrap_pairs(X, constraints)
WrapPairs ==
  /\ pc = "idle"
  /\ X' \in WrapDatasets
  /\ \E ab_ \in IndexArrayPairs(Len(X')), cd_ \in IndexArrayPairs(Len(X')) :
       constraints' = <<ab_[1], ab_[2], cd_[1], cd_[2]>>
  /\ LET out == wrap_pairs(X', constraints')
     IN  IF out.exc # NoException
           THEN /\ raised' = out.exc
                /\ pc' = "raised"
                /\ UNCHANGED <<pairs, y_arr>>
           ELSE /\ raised' = raised
                /\ pc' = "wrapped"
                /\ pairs' = [ndim |-> 3, rows |-> out.val[1]]
                /\ y_arr' = out.val[2]
  /\ UNCHANGED <<warned, rng_draws, partial_labels, chunkVars, pairVars, inputVars,
                 factorVars, lifeVars, rngVars, transformer_, preprocessor_, scores,
                 X_embedded, M, w_arr, tol, k_genuine, k_impostor, triplets,
                 quadruplets, X_other, scale, indicators>>

InitWrap ==
  /\ Quiet
  /\ partial_labels = <<>>
  /\ ChunksIdle
  /\ PairsIdle
  /\ InputIdle
  /\ LearnerIdle
  /\ MoreIdle

NextWrap == WrapPairs

SpecWrap == InitWrap /\ [][NextWrap]_vars

\* ------------- _PairsClassifierMixin, _QuadrupletsClassifierMixin, lines 172-284
\* The tuples the caller scores are made of the rows of X: tuple p holds
\* the rows p, p + 1, ..., taken cyclically, given formed (rank 3) or as
\* indicators counted from 0 (rank 2).  The caller scores one pair for each
\* row, and one quadruplet for each row but the last.
window(n, p, size) == [k \in 1 .. size |-> ((p + k - 2) % n) + 1]

NumTuples(n, size) == IF size = 2 \/ n = 1 THEN n ELSE n - 1

ClassifierTuples(Xs, size) ==
  {[ndim |-> 3,
    rows |-> [p \in 1 .. NumTuples(Len(Xs), size) |->
               [k \in 1 .. size |-> Xs[window(Len(Xs), p, size)[k]]]]],
   [ndim |-> 2,
    rows |-> [p \in 1 .. NumTuples(Len(Xs), size) |->
               [k \in 1 .. size |-> window(Len(Xs), p, size)[k] - 1]]]}

\* the labels of n pairs: +1 similar, -1 dissimilar
SimilarityLabels(n) == [1 .. n -> {-1, 1}]

\* lines 192-193: _PairsClassifierMixin.predict
pairs_predict(tuples) ==
  LET e == check_tuples(tuples, preprocessor_.kind # "None")
  IN  IF e # NoException THEN Thrown(e) ELSE Returned(score_pairs(tuples))

\* lines 195-197: _PairsClassifierMixin.decision_function
pairs_decision_function(tuples) ==
  LET e == check_tuples(tuples, preprocessor_.kind # "None")
  IN  IF e # NoException THEN Thrown(e) ELSE pairs_predict(tuples)

\* sklearn.metrics.roc_auc_score(y_true, y_score), for labels in {-1, +1}:
\* the positive class is the greater label, +1, and the area under the ROC
\* curve is the share of the (positive, negative) couples of samples in
\* which the positive one has the greater score, a tie counting for half.
\* The area is kept as the fraction num / den.
OneClassError ==
  [type |-> "ValueError",
   text |-> "Only one class present in y_true. ROC AUC score is not defined in that case."]

roc_auc_score(y_true, y_score) ==
  LET positives == {i \in DOMAIN y_true : y_true[i] = 1}
      negatives == {j \in DOMAIN y_true : y_true[j] = -1}
      couples == positives \X negatives
      ordered == {c \in couples : y_score[c[1]].sqrt > y_score[c[2]].sqrt}
      tied == {c \in couples : y_score[c[1]].sqrt = y_score[c[2]].sqrt}
  IN  IF positives = {} \/ negatives = {} THEN Thrown(OneClassError)
      ELSE Returned([num |-> 2 * Cardinality(ordered) + Cardinality(tied),
                     den |-> 2 * Cardinality(couples)])

\* lines 224-225: _PairsClassifierMixin.score
pairs_score(tuples, labels) ==
  LET e == check_tuples(tuples, preprocessor_.kind # "None")
      decided == pairs_decision_function(tuples)
  IN  IF e # NoException THEN Thrown(e)
      ELSE IF decided.exc # NoException THEN decided
      ELSE roc_auc_score(labels, decided.val)

\* quadruplets[:, :2, ...] and quadruplets[:, 2:, ...]
first_two(tuples) ==
  [ndim |-> tuples.ndim,
   rows |-> [p \in 1 .. Len(tuples.rows) |-> <<tuples.rows[p][1], tuples.rows[p][2]>>]]

last_two(tuples) ==
  [ndim |-> tuples.ndim,
   rows |-> [p \in 1 .. Len(tuples.rows) |-> <<tuples.rows[p][3], tuples.rows[p][4]>>]]

\* a - b of two arrays of roots: entry p is the real number
\* sqrt(a[p].sqrt) - sqrt(b[p].sqrt), kept as [minus |-> <<a[p], b[p]>>]
np_subtract(a, b) == [p \in 1 .. Len(a) |-> [minus |-> <<a[p], b[p]>>]]

\* lines 252-257: _QuadrupletsClassifierMixin.predict
quadruplets_predict(tuples) ==
  LET e == check_tuples(tuples, preprocessor_.kind # "None")
  IN  IF e # NoException THEN Thrown(e)
      ELSE Returned(np_subtract(score_pairs(first_two(tuples)),
                                score_pairs(last_two(tuples))))

\* lines 259-260: _QuadrupletsClassifierMixin.decision_function
quadruplets_decision_function(tuples) == quadruplets_predict(tuples)

\* -np.mean(a), kept as the real number it denotes
neg_mean(a) == [neg_mean |-> a]

\* lines 281-283: _QuadrupletsClassifierMixin.score
quadruplets_score(tuples) ==
  LET e == check_tuples(tuples, preprocessor_.kind # "None")
      predicted == quadruplets_predict(tuples)
  IN  IF e # NoException THEN Thrown(e)
      ELSE IF predicted.exc # NoException THEN predicted
      ELSE Returned(neg_mean(predicted.val))

\* the transformers the classifiers learn: the matrices of one row, and the
\* identity
ClassifierTransformers ==
  [1 .. 1 -> Entries \X Entries] \cup {<<<<1, 0>>, <<0, 1>>>>}

\* A pairs or quadruplets classifier is fitted: as Fit, with transformer_
\* among ClassifierTransformers.
FitClassifier ==
  /\ pc = "idle"
  /\ X' \in Datasets
  /\ transformer_' \in ClassifierTransformers
  /\ \/ preprocessor_' = [kind |-> "None"]
     \/ preprocessor_' = [kind |-> "array", array |-> X']
  /\ pc' = "fit"
  /\ UNCHANGED <<raised, warned, rng_draws, partial_labels, moreVars, chunkVars, pairVars,
                 inputVars, pairs, scores, X_embedded, M>>

\* a call on the fitted classifier ends with the outcome out
ClassifierEnds(out, position) ==
  IF out.exc # NoException
    THEN /\ raised' = out.exc
         /\ pc' = "raised"
         /\ returned' = <<>>
    ELSE /\ raised' = raised
         /\ pc' = position
         /\ returned' = out.val

\* estimator.predict(pairs), of a fitted pairs classifier
PairsPredict ==
  /\ pc = "fit"
  /\ pairs' \in ClassifierTuples(X, 2)
  /\ ClassifierEnds(pairs_predict(pairs'), "pairs predicted")
  /\ UNCHANGED <<warned, rng_draws, partial_labels, chunkVars, pairVars, inputVars,
                 factorVars, rngVars, X, transformer_, preprocessor_, scores,
                 X_embedded, M, learner_class, self_dict, heap, metric_funs, fits,
                 work, res, y_arr, w_arr, tol, k_genuine, k_impostor, triplets,
                 quadruplets, X_other, scale, indicators, constraints>>

\* estimator.decision_function(pairs), of a fitted pairs classifier
PairsDecisionFunction ==
  /\ pc = "fit"
  /\ pairs' \in ClassifierTuples(X, 2)
  /\ ClassifierEnds(pairs_decision_function(pairs'), "pairs decided")
  /\ UNCHANGED <<warned, rng_draws, partial_labels, chunkVars, pairVars, inputVars,
                 factorVars, rngVars, X, transformer_, preprocessor_, scores,
                 X_embedded, M, learner_class, self_dict, heap, metric_funs, fits,
                 work, res, y_arr, w_arr, tol, k_genuine, k_impostor, triplets,
                 quadruplets, X_other, scale, indicators, constraints>>

\* estimator.score(pairs, y), of a fitted pairs classifier
PairsScore ==
  /\ pc = "fit"
  /\ pairs' \in ClassifierTuples(X, 2)
  /\ y_arr' \in SimilarityLabels(Len(pairs'.rows))
  /\ ClassifierEnds(pairs_score(pairs', y_arr'), "pairs scored")
  /\ UNCHANGED <<warned, rng_draws, partial_labels, chunkVars, pairVars, inputVars,
                 factorVars, rngVars, X, transformer_, preprocessor_, scores,
                 X_embedded, M, learner_class, self_dict, heap, metric_funs, fits,
                 work, res, w_arr, tol, k_genuine, k_impostor, triplets,
                 quadruplets, X_other, scale, indicators, constraints>>

\* estimator.predict(quadruplets), of a fitted quadruplets classifier
QuadrupletsPredict ==
  /\ pc = "fit"
  /\ quadruplets' \in ClassifierTuples(X, 4)
  /\ ClassifierEnds(quadruplets_predict(quadruplets'), "quadruplets predicted")
  /\ UNCHANGED <<warned, rng_draws, partial_labels, chunkVars, pairVars, inputVars,
                 factorVars, rngVars, X, transformer_, preprocessor_, pairs, scores,
                 X_embedded, M, learner_class, self_dict, heap, metric_funs, fits,
                 work, res, y_arr, w_arr, tol, k_genuine, k_impostor, triplets,
                 X_other, scale, indicators, constraints>>

\* estimator.decision_function(quadruplets), of a fitted quadruplets classifier
QuadrupletsDecisionFunction ==
  /\ pc = "fit"
  /\ quadruplets' \in ClassifierTuples(X, 4)
  /\ ClassifierEnds(quadruplets_decision_function(quadruplets'),
                    "quadruplets decided")
  /\ UNCHANGED <<warned, rng_draws, partial_labels, chunkVars, pairVars, inputVars,
                 factorVars, rngVars, X, transformer_, preprocessor_, pairs, scores,
                 X_embedded, M, learner_class, self_dict, heap, metric_funs, fits,
                 work, res, y_arr, w_arr, tol, k_genuine, k_impostor, triplets,
                 X_other, scale, indicators, constraints>>

\* estimator.score(quadruplets), of a fitted quadruplets classifier
QuadrupletsScore ==
  /\ pc = "fit"
  /\ quadruplets' \in ClassifierTuples(X, 4)
  /\ ClassifierEnds(quadruplets_score(quadruplets'), "quadruplets scored")
  /\ UNCHANGED <<warned, rng_draws, partial_labels, chunkVars, pairVars, inputVars,
                 factorVars, rngVars, X, transformer_, preprocessor_, pairs, scores,
                 X_embedded, M, learner_class, self_dict, heap, metric_funs, fits,
                 work, res, y_arr, w_arr, tol, k_genuine, k_impostor, triplets,
                 X_other, scale, indicators, constraints>>

InitClassify ==
  /\ Quiet
  /\ partial_labels = <<>>
  /\ ChunksIdle
  /\ PairsIdle
  /\ InputIdle
  /\ LearnerIdle
  /\ MoreIdle

NextClassify ==
  \/ FitClassifier
  \/ PairsPredict
  \/ PairsDecisionFunction
  \/ PairsScore
  \/ QuadrupletsPredict
  \/ QuadrupletsDecisionFunction
  \/ QuadrupletsScore

SpecClassify == InitClassify /\ [][NextClassify]_vars

\* ================================================================= claims
\* The number of chunks the labels support, as the claims state it: the sum
\* over the non-negative labels of floor(class size / chunk_size).
RECURSIVE FeasibleChunks(_, _, _)
FeasibleChunks(labels, cs, l) ==
  IF l < 0 THEN 0
  ELSE Cardinality({i \in DOMAIN labels : labels[i] = l}) \div cs
       + FeasibleChunks(labels, cs, l - 1)

\* the points that carry chunk id k
PointsOfChunk(k) == {i \in DOMAIN chunks : chunks[i] = k}

\* the result of chunks(): exactly the ids 0 .. num_chunks-1 occur, each on
\* exactly chunk_size points, all of one label
ChunksResultOk ==
  /\ DOMAIN chunks = DOMAIN partial_labels
  /\ {chunks[i] : i \in DOMAIN chunks} \ {-1} = 0 .. (num_chunks - 1)
  /\ \A k \in 0 .. (num_chunks - 1) :
       /\ Cardinality(PointsOfChunk(k)) = chunk_size
       /\ \A i, j \in PointsOfChunk(k) : partial_labels[i] = partial_labels[j]

\* a chunk id, once given to a point, is never overwritten by another chunk
NoPointInTwoChunks ==
  \A i \in DOMAIN chunks : chunks[i] >= 0 =>
     (i \in DOMAIN chunks' /\ chunks'[i] = chunks[i])

\* what the loop of chunks() has left to do: chunks to form, classes to drop
ChunksMeasure == (num_chunks - idx) + Len(all_inds)

\* C1: for every label vector, every num_chunks >= 1 and chunk_size >= 1
\* with num_chunks at most the feasible number of chunks, and every outcome
\* of the draws, chunks() does not raise, terminates (every iteration of the
\* loop lowers a non-negative measure, and the loop can always step or
\* return), and returns an array in which exactly the ids 0 .. num_chunks-1
\* occur, each on exactly chunk_size points of one label, no point being in
\* two chunks.
C1_ChunksPartition ==
  /\ []((pc # "idle" /\ num_chunks >= 1
         /\ num_chunks <= FeasibleChunks(partial_labels, chunk_size, MaxLabel))
        => /\ pc # "raised"
           /\ pc = "done" => ChunksResultOk)
  /\ [](pc = "loop" => (ChunksMeasure >= 0 /\ ENABLED NextChunks))
  /\ [][pc = "loop" =>
          /\ NoPointInTwoChunks
          /\ pc' = "done" \/ ChunksMeasure' < ChunksMeasure]_vars

\* C1 witness: two chunks of two points were formed out of two classes
C1_Witness ==
  /\ pc = "done" /\ num_chunks = 2 /\ chunk_size = 2
  /\ Len(KnownUniq(partial_labels)) = 2
  /\ PointsOfChunk(1) # {}

\* C2: chunks() raises ValueError exactly when num_chunks exceeds the
\* feasible number of chunks; the message carries chunk_size, num_chunks and
\* that exact maximum; no draw and no chunk assignment precedes it.
C2_ChunksValueError ==
  LET mx == FeasibleChunks(partial_labels, chunk_size, MaxLabel)
  IN  /\ pc \in {"loop", "done"} => num_chunks <= mx
      /\ pc = "raised" =>
           /\ num_chunks > mx
           /\ raised = [type |-> "ValueError", text |-> "Not enough possible chunks",
                        chunk_size |-> chunk_size, num_chunks |-> num_chunks,
                        max_chunks |-> mx]
           /\ rng_draws = 0
           /\ \A i \in DOMAIN chunks : chunks[i] = -1

\* C2 witness: a request for two chunks of two points where one is feasible
C2_Witness ==
  /\ pc = "raised" /\ num_chunks = 2 /\ chunk_size = 2
  /\ raised.max_chunks = 1

\* the pairs (x[i], y[i]) are pairs of different points of known label, the
\* labels equal if same and different if not, and no pair occurs twice
PairsOk(x, y, same) ==
  /\ Len(x) = Len(y)
  /\ \A i \in DOMAIN x :
       /\ x[i] \in DOMAIN partial_labels /\ y[i] \in DOMAIN partial_labels
       /\ x[i] # y[i]
       /\ partial_labels[x[i]] >= 0 /\ partial_labels[y[i]] >= 0
       /\ (partial_labels[x[i]] = partial_labels[y[i]]) <=> same
  /\ \A i, j \in DOMAIN x : (x[i] = x[j] /\ y[i] = y[j]) => i = j

\* C3: every pair (a[i], b[i]) of positive_negative_pairs is a pair of two
\* different indices of the point array whose labels are known and equal,
\* every pair (c[i], d[i]) a pair of indices whose labels are known and
\* different, and no ordered pair occurs twice in either set.
C3_PairsValid ==
  /\ PairsOk(pos_a, pos_b, TRUE)
  /\ PairsOk(neg_c, neg_d, FALSE)

\* C3 witness: two similar and two dissimilar pairs were returned
C3_Witness ==
  /\ pc = "done"
  /\ Len(pos_a) = 2 /\ Len(neg_c) = 2

\* what the loop of _pairs has left to do: rounds, and anchors of the round
PairsMeasure ==
  (max_iter - it) * (num_constraints + 2)
    + (IF pc = "while" THEN num_constraints + 1 ELSE anchors_left)

\* the shortfall warning of the running _pairs call, if it was emitted
ShortfallWarned ==
  \E i \in DOMAIN warned :
    warned[i].polarity = (IF same_label THEN "positive" ELSE "negative")

\* C4: the loop of _pairs terminates (it lowers a non-negative measure at
\* every step and can always step): it runs at most 10 rounds, starts a round
\* only while fewer than num_constraints pairs are held, draws in each round
\* exactly num_constraints - len(ab) anchors, never holds more than
\* num_constraints pairs, and the shortfall warning is emitted exactly when
\* fewer than num_constraints pairs are held at the end of the loop.
C4_PairsLoop ==
  /\ [](/\ it <= max_iter
        /\ Cardinality(ab) <= num_constraints
        /\ pc = "for" => (it < max_iter
                          /\ Cardinality(ab) + anchors_left <= num_constraints)
        /\ pc \in {"while", "for"} => (PairsMeasure >= 0 /\ ENABLED NextPairs)
        /\ pc = "after" => (ShortfallWarned <=> Cardinality(ab) < num_constraints))
  /\ [][/\ (pc = "while" /\ pc' = "for") =>
             /\ it < max_iter /\ Cardinality(ab) < num_constraints
             /\ anchors_left' = num_constraints - Cardinality(ab)
        /\ (pc = "for" /\ pc' = "while") => (anchors_left = 0 /\ it' = it + 1)
        /\ (pc \in {"while", "for"} /\ pc' \in {"while", "for"}) =>
             PairsMeasure' < PairsMeasure]_vars

\* C4 witness: the ten rounds are used up with one pair of two held
C4_Witness ==
  /\ pc = "after" /\ it = max_iter
  /\ num_constraints = 2 /\ Cardinality(ab) = 1
  /\ ShortfallWarned

\* C5: a shortfall is not fatal: when fewer than num_constraints pairs of a
\* polarity were generated, none included, the warning with the number
\* generated is emitted and the call then returns normally.
C5_ShortfallNonFatal ==
  /\ (pc = "after" /\ Cardinality(ab) < num_constraints) =>
        warned[Len(warned)] =
          [text |-> "Only generated", n |-> Cardinality(ab),
           polarity |-> IF same_label THEN "positive" ELSE "negative",
           requested |-> num_constraints]
  /\ warned # <<>> => pc # "raised"

\* a call of check_input in one of its two modes has ended
InputEnded == pc \in {"done", "raised"} /\ type_of_inputs \in {"classic", "tuples"}

\* the formed rank r of the mode
FormedRank == IF type_of_inputs = "classic" THEN 2 ELSE 3

\* '<r>D array of formed points|tuples'
FormedText ==
  IF type_of_inputs = "classic" THEN "2D array of formed points"
                                ELSE "3D array of formed tuples"

\* '<r-1>D array of indicators or <r>D array of formed points|tuples'
IndicatorsOrFormedText ==
  IF type_of_inputs = "classic"
    THEN "1D array of indicators or 2D array of formed points"
    ELSE "2D array of indicators or 3D array of formed tuples"

\* <context>: ' by <name>' for an estimator instance or string, else empty
ContextText == IF estimator.kind = "None" THEN "" ELSE " by NCA"

\* the text of a rank error: what was expected, in which circumstance, the
\* rank found, and the hint that ends it
RankErrorText(expected, circumstance, found, hint) ==
  expected \o " expected" \o ContextText \o circumstance \o ". Found " \o Str(found)
    \o "D array instead:\ninput={input_data}. Reshape your data" \o hint \o ".\n"

\* C6: check_input routes on the rank of the input, r being 2 in 'classic'
\* mode and 3 in 'tuples' mode: rank-r input is used as it is, without a call
\* of the preprocessor; rank-(r-1) input is resolved through the preprocessor
\* if there is one and else raises '<r>D array of formed ... expected<context>.
\* Found <r-1>D array instead ... Reshape your data and/or use a
\* preprocessor.'; any other rank raises '<r-1>D array of indicators or <r>D
\* array of formed ... expected<context> when using a preprocessor. ...' with a
\* preprocessor and '<r>D array of formed ... expected<context>. ...' without,
\* both ending in 'Reshape your data.'.
C6_RankRouting ==
  InputEnded =>
    LET r == FormedRank
        n == Ndim(input_data)
        none == preprocessor.kind = "None"
    IN  /\ n = r =>
             /\ preprocessor_calls = 0
             /\ pc = "done" => result = input_data
             /\ pc = "raised" => raised.text # RankErrorText(FormedText, "", n, "")
        /\ (n = r - 1 /\ ~none) =>
             /\ preprocessor_calls >= 1 \/ (r = 3 /\ input_data.shape[2] = 0)
             /\ pc = "done" => result.by = "preprocessor"
        /\ (n = r - 1 /\ none) =>
             /\ pc = "raised"
             /\ preprocessor_calls = 0
             /\ raised = [type |-> "ValueError", input_data |-> input_data,
                          text |-> RankErrorText(FormedText, "", n,
                                                 " and/or use a preprocessor")]
        /\ (n \notin {r - 1, r} /\ ~none) =>
             /\ pc = "raised"
             /\ preprocessor_calls = 0
             /\ raised = [type |-> "ValueError", input_data |-> input_data,
                          text |-> RankErrorText(IndicatorsOrFormedText,
                                                 " when using a preprocessor", n, "")]
        /\ (n \notin {r - 1, r} /\ none) =>
             /\ pc = "raised"
             /\ raised = [type |-> "ValueError", input_data |-> input_data,
                          text |-> RankErrorText(FormedText, "", n, "")]

\* C6 witness: a rank-4 input in 'tuples' mode with a preprocessor and an
\* estimator was refused
C6_Witness ==
  /\ pc = "raised" /\ type_of_inputs = "tuples"
  /\ Ndim(input_data) = 4 /\ preprocessor.kind = "array"
  /\ estimator.kind = "instance"
  /\ raised.text = "2D array of indicators or 3D array of formed tuples expected by NCA when using a preprocessor. Found 4D array instead:\ninput={input_data}. Reshape your data.\n"

\* the preprocessor was applied and gave an array
PreprocessorApplied ==
  /\ Ndim(input_data) = FormedRank - 1
  /\ \/ type_of_inputs = "classic" /\ preprocessor.kind \in {"scalar", "array"}
     \/ type_of_inputs = "tuples" /\ preprocessor.kind = "array"
          /\ input_data.shape[2] > 0

\* the rank of the array the preprocessor gave
PreprocessedRank ==
  IF type_of_inputs = "classic"
    THEN IF preprocessor.kind = "scalar" THEN 0 ELSE 1 + Len(preprocessor.features)
    ELSE 2 + Len(preprocessor.features)

\* C7: when the preprocessor has been applied and its result, an array that
\* check_array accepts, has not the formed rank, check_input raises ValueError
\* '<r>D array of formed ... expected<context> after the preprocessor has been
\* applied. Found <N>D array instead ... Reshape your data and/or use a
\* preprocessor.', and no exception of another kind.
C7_PreprocessedRankError ==
  (InputEnded /\ PreprocessorApplied /\ sk_accepts
     /\ PreprocessedRank # FormedRank) =>
    /\ pc = "raised"
    /\ raised.type = "ValueError"
    /\ raised.text = RankErrorText(FormedText,
                                   " after the preprocessor has been applied",
                                   PreprocessedRank, " and/or use a preprocessor")

\* the formed rank-3 array of a call in 'tuples' mode, if there is one
HasFormedTuples ==
  /\ InputEnded /\ type_of_inputs = "tuples"
  /\ \/ Ndim(input_data) = 3
     \/ PreprocessorApplied /\ PreprocessedRank = 3

FormedTuples ==
  IF Ndim(input_data) = 3 THEN input_data
  ELSE Array(input_data.shape \o preprocessor.features, "preprocessor")

\* the ValueError 'Tuples of <k> element(s) expected<context>. Got tuples of
\* <j> element(s) instead (shape=<shape>): input=<data>.'
TupleSizeErrorRaised ==
  /\ pc = "raised"
  /\ tuple_size.kind = "int"
  /\ raised = [type |-> "ValueError", input_data |-> FormedTuples,
               text |-> "Tuples of " \o Str(tuple_size.value)
                        \o " element(s) expected" \o ContextText
                        \o ". Got tuples of " \o Str(FormedTuples.shape[2])
                        \o " element(s) instead (shape={shape}):\ninput={input_data}.\n"]

\* C8 as stated: in 'tuples' mode with tuple_size = k, the tuple-size error
\* is raised exactly when the second dimension j of the formed rank-3 array,
\* an array check_array accepts, differs from k, and never with tuple_size
\* None.
C8_TupleSizeIff ==
  (HasFormedTuples /\ sk_accepts) =>
    (TupleSizeErrorRaised <=>
       (tuple_size.kind = "int" /\ FormedTuples.shape[2] # tuple_size.value))

\* C8 amended: the tuple-size error is raised exactly when the formed rank-3
\* array is accepted by check_array, has at least ensure_min_features
\* features, and its second dimension j differs from k; never with tuple_size
\* None.
C8_TupleSizeAfterChecks ==
  HasFormedTuples =>
    (TupleSizeErrorRaised <=>
       /\ sk_accepts
       /\ FormedTuples.shape[3] >= ensure_min_features
       /\ tuple_size.kind = "int"
       /\ FormedTuples.shape[2] # tuple_size.value)

\* C8 witness: preprocessed pairs were refused where tuple_size is 1
C8_Witness ==
  /\ HasFormedTuples /\ Ndim(input_data) = 2
  /\ TupleSizeErrorRaised
  /\ tuple_size.value = 1 /\ FormedTuples.shape[2] = 2

\* u - v, entry by entry
VecSub(u, v) == [k \in 1 .. Len(u) |-> u[k] - v[k]]

\* v^T A v
QuadraticForm(A, v) ==
  SumSeq([k \in 1 .. Len(v) |->
    v[k] * SumSeq([j \in 1 .. Len(v) |-> A[k][j] * v[j]])])

\* the squared Euclidean norm of v
SquaredNorm(v) == SumSeq([k \in 1 .. Len(v) |-> v[k] * v[k]])

\* L^T L, entry (i, j) being the sum over the rows r of L of L[r][i] * L[r][j]
LtL ==
  [i \in 1 .. 2 |-> [j \in 1 .. 2 |->
    SumSeq([r \in 1 .. Len(transformer_) |-> transformer_[r][i] * transformer_[r][j]])]]

\* C9: for a fitted learner with L = transformer_ and M = metric() = L^T L,
\* score_pairs returns for every pair (x1, x2) the value
\* sqrt((x2-x1)^T M (x2-x1)), which is the Euclidean distance between
\* transform(x1) and transform(x2), and it returns one score per pair.  The
\* pairs scored are the pairs (X[i], X[j]), pair (i, j) at place
\* (i - 1) * n + j.
C9_ScoreIsMahalanobis ==
  pc = "scored" =>
    LET MetricMatrix == metric
        embedded == transform(X)
        n == Len(X)
    IN  /\ MetricMatrix = LtL
        /\ Len(scores) = Len(pairs.rows)
        /\ Len(scores) = n * n
        /\ \A i, j \in 1 .. n :
             LET score == scores[(i - 1) * n + j]
             IN  /\ score = np_sqrt(QuadraticForm(MetricMatrix, VecSub(X[j], X[i])))
                 /\ score = np_sqrt(SquaredNorm(VecSub(embedded[i], embedded[j])))

\* C9 witness: nine pairs given as indicators were scored under an L of one
\* row, and two points are at distance non-zero distance
C9_Witness ==
  /\ pc = "scored"
  /\ pairs.ndim = 2 /\ Len(scores) = 9
  /\ Len(transformer_) = 1
  /\ \E p \in 1 .. 9 : scores[p].sqrt > 0

\* the scores as a matrix: score_pairs(product(X, X)).reshape(n, n)
d(i, j) == scores[(i - 1) * Len(X) + j]

\* sqrt(a) <= sqrt(b) + sqrt(c) for non-negative a, b, c: squaring twice,
\* a - b - c <= 2 sqrt(b c)
SqrtLeqSum(a, b, c) ==
  \/ a - b - c <= 0
  \/ (a - b - c) * (a - b - c) <= 4 * b * c

\* C10: the distance score_pairs computes is non-negative, symmetric, zero
\* between a point and itself and obeys the triangle inequality.
C10_DistanceAxioms ==
  pc = "scored" =>
    \A i, j \in 1 .. Len(X) :
      /\ d(i, j).sqrt >= 0
      /\ d(i, j) = d(j, i)
      /\ X[i] = X[j] => d(i, j) = np_sqrt(0)
      /\ \A k \in 1 .. Len(X) :
           SqrtLeqSum(d(i, k).sqrt, d(i, j).sqrt, d(j, k).sqrt)

\* C10 witness: three different points were scored, all at non-zero
\* distances, under an L of two rows
C10_Witness ==
  /\ pc = "scored"
  /\ Len(X) = 3 /\ Len(transformer_) = 2
  /\ \A i, j \in 1 .. 3 : i # j => d(i, j).sqrt > 0

\* a call of transformer_from_metric has ended
Factored == pc \in {"factored", "raised"} /\ metric_arg # <<>>

\* two numbers are equal within floating tolerance: they differ by terms
\* in s^2 at most
Approx(x, y) == x # NaN /\ y # NaN /\ x[1] = y[1] /\ x[2] = y[2]

GramIsMetric(L, A) ==
  \A i \in 1 .. Len(A) : \A j \in 1 .. Len(A) : Approx(RealGram(L)[i][j], A[i][j])

\* every entry off the diagonal is 0
IsDiagonal(A) == \A i \in 1 .. Len(A) : \A j \in 1 .. Len(A) : i # j => A[i][j] = Zero

\* the determinant of A is 0 within tolerance
IsSingular(A) ==
  Len(A) = 2 /\ A[1][1][1] * A[2][2][1] - A[1][2][1] * A[2][1][1] = 0

\* A is positive semi-definite: its diagonal and its determinant, with the
\* term in s^4 of the latter, are not negative
ExactlyPSD(A) ==
  IF Len(A) = 1 THEN Sign(A[1][1]) >= 0
  ELSE /\ Sign(A[1][1]) >= 0
       /\ Sign(A[2][2]) >= 0
       /\ LET dt == det(A)
              d4 == A[1][1][3] * A[2][2][3] - A[1][2][3] * A[2][1][3]
          IN  Sign(dt) > 0 \/ (Sign(dt) = 0 /\ d4 >= 0)

\* A is positive semi-definite up to floating-point error: its leading
\* terms are a positive semi-definite matrix
ApproxPSD(A) ==
  IF Len(A) = 1 THEN A[1][1][1] >= 0
  ELSE /\ A[1][1][1] >= 0
       /\ A[2][2][1] >= 0
       /\ A[1][1][1] * A[2][2][1] - A[1][2][1] * A[2][1][1] >= 0

NoNaN(L) == \A i \in 1 .. Len(L) : \A j \in 1 .. Len(L) : L[i][j] # NaN

\* the diagonal case: the non-negative roots of the entries
C11_DiagonalCase ==
  (Factored /\ IsDiagonal(metric_arg)) =>
    /\ pc = "factored"
    /\ \A i \in 1 .. Len(factor) : \A j \in 1 .. Len(factor) :
         Sign(metric_arg[i][j]) >= 0 =>
           /\ factor[i][j] # NaN /\ Sign(factor[i][j]) >= 0
           /\ Approx(real_mul(factor[i][j], factor[i][j]), metric_arg[i][j])

\* the Cholesky case: an upper triangular matrix of positive diagonal whose
\* transpose is the Cholesky factor
C11_CholeskyCase ==
  (Factored /\ ~IsDiagonal(metric_arg) /\ metric_arg[1][2][1] # 0
     /\ ~IsSingular(metric_arg) /\ ApproxPSD(metric_arg)) =>
    /\ pc = "factored"
    /\ factor[2][1] = Zero
    /\ Sign(factor[1][1]) > 0 /\ Sign(factor[2][2]) > 0
    /\ GramIsMetric(factor, metric_arg)

\* the eigen case: rows that are orthogonal and give the metric back
C11_EigenCase ==
  (Factored /\ ~IsDiagonal(metric_arg) /\ metric_arg[1][2][1] # 0
     /\ IsSingular(metric_arg)) =>
    /\ pc = "factored"
    /\ NoNaN(factor) =>
         /\ Approx(real_add(real_mul(factor[1][1], factor[2][1]),
                            real_mul(factor[1][2], factor[2][2])), Zero)
         /\ ApproxPSD(metric_arg) => GramIsMetric(factor, metric_arg)

\* C11: transformer_from_metric(M) returns the elementwise non-negative
\* square root of a diagonal M, else the transpose of the Cholesky factor of
\* an M of non-zero determinant, else V^T with row i scaled by
\* sqrt(max(0, w_i)) for the eigenvalues w and eigenvectors V of M; in every
\* branch the result is a real matrix, without NaN entry, when M is
\* positive semi-definite up to floating-point error.
C11_ThreeWayFactor ==
  /\ C11_DiagonalCase
  /\ C11_CholeskyCase
  /\ C11_EigenCase
  /\ (Factored /\ ApproxPSD(metric_arg)) => (pc = "factored" /\ NoNaN(factor))

\* C12: for every symmetric positive semi-definite M, the matrix
\* L = transformer_from_metric(M) satisfies L^T L = M within floating
\* tolerance.
C12_RoundTrip ==
  (Factored /\ ExactlyPSD(metric_arg)) =>
    (pc = "factored" /\ NoNaN(factor) /\ GramIsMetric(factor, metric_arg))

\* ----------------------------------------------------------------- C13
\* C13: a function that get_metric() returned gives, for the same two
\* vectors, the same value before and after every later step, refits on
\* other data included: no step changes an array that exists, so a refit
\* makes a new array for transformer_ and leaves the previous one alone.
C13_MetricFunSnapshot ==
  [][/\ \A i \in 1 .. Len(heap) : heap'[i] = heap[i]
     /\ \A f \in metric_funs :
          \A uv \in VectorPairs(Len(heap[f.transformer.id][1])) :
            metric_fun(heap', f, uv[1], uv[2]) = metric_fun(heap, f, uv[1], uv[2])]_vars

\* a function is held that was returned before the last refit, the refit
\* learned another matrix, and the function has been called since
C13_Witness ==
  /\ pc = "metric_fun"
  /\ hasattr(self_dict, "transformer_")
  /\ \E f \in metric_funs :
       /\ f.transformer # self_dict["transformer_"]
       /\ heap[f.transformer.id] # transformer_of(self_dict, heap)

\* ----------------------------------------------------------------- C14
\* the value of an attribute of the learner: <<>> when it is not set, the
\* content of the array when it is an array
attribute(dict, arrays, name) ==
  IF ~hasattr(dict, name) THEN <<>>
  ELSE IF dict[name].kind = "ndarray" THEN <<arrays[dict[name].id]>>
  ELSE <<dict[name]>>

FitAttributes == {"transformer_", "n_iter_", "X_", "M_"}

\* C14: a call of fit that raises leaves transformer_, n_iter_, X_ and M_
\* as they were before the call, and a validation error is raised before
\* any computation has started.
C14_FailedFitLeavesLearner ==
  [][(fits' = fits + 1 /\ pc' = "raised") =>
       /\ \A name \in FitAttributes :
            attribute(self_dict', heap', name) = attribute(self_dict, heap, name)
       /\ raised'.type = "ValueError" => work' = <<>>]_vars

\* ----------------------------------------------------------------- C15
\* C15: a learner that was never fitted has no transformer_, and every step
\* that is not a call of fit - transform, score_pairs, predict,
\* decision_function, metric, transformer_from_metric, get_metric and the
\* calls of the functions it returned - leaves every attribute of the
\* learner and every array as it was, so that the attributes are those the
\* last fit left.
C15_OnlyFitChangesLearner ==
  /\ [](fits = 0 => ~hasattr(self_dict, "transformer_"))
  /\ [][fits' = fits => (self_dict' = self_dict /\ heap' = heap)]_vars

\* metric() has returned on a fitted learner
C15_Witness ==
  /\ pc = "metric"
  /\ fits > 0
  /\ hasattr(self_dict, "transformer_")
  /\ returned = RealGram(transformer_of(self_dict, heap))

\* ----------------------------------------------------------------- C17
\* C17: a call of MLKR.fit whose solver stops without success emits one
\* ConvergenceWarning, raises nothing, sets transformer_ to the vector the
\* solver returned, reshaped, and returns the learner, whatever the
\* parameters of the learner.
C17_NonConvergenceWarns ==
  [][(learner_class = "MLKR" /\ fits' = fits + 1 /\ work' = <<"minimize">>
      /\ ~res'.success) =>
       /\ warned' = Append(warned, ConvergenceWarning)
       /\ raised' = NoException
       /\ pc' = "fit"
       /\ returned' = "self"
       /\ LET L == transformer_of(self_dict', heap')
          IN  /\ Len(L) * Len(L[1]) = Len(res'.x)
              /\ L = reshape(res'.x, <<Len(L), Len(L[1])>>)]_vars

\* the same with the warning left to the learners that are verbose
C17_VerboseWarns ==
  [][(learner_class = "MLKR" /\ fits' = fits + 1 /\ work' = <<"minimize">>
      /\ ~res'.success) =>
       /\ warned' = IF self_dict["verbose"].value
                      THEN Append(warned, ConvergenceWarning) ELSE warned
       /\ raised' = NoException
       /\ pc' = "fit"
       /\ returned' = "self"
       /\ LET L == transformer_of(self_dict', heap')
          IN  /\ Len(L) * Len(L[1]) = Len(res'.x)
              /\ L = reshape(res'.x, <<Len(L), Len(L[1])>>)]_vars

\* ----------------------------------------------------------------- C16
\* C16: constraint generation draws only from the random source the caller
\* gave: in every state of a call of chunks or positive_negative_pairs, made
\* with or without random_state, numpy's process-global RandomState has not
\* been drawn from, so that the result depends on the seed given alone.
C16_OnlyInjectedRandomness == ~np_random_used

\* the same for the calls that pass a seed or a RandomState
C16_SeededCallsKeepGlobalState == random_state # None => ~np_random_used

\* ----------------------------------------------------------------- C18
\* C18: in every state of a call of chunks, the loop and the result
\* included, every point whose label is negative has chunk id -1: only the
\* points with a label that is not negative get a chunk id that is not
\* negative.
C18_UnknownLabelsUnchunked ==
  chunks # <<>> =>
    \A i \in DOMAIN chunks : partial_labels[i] < 0 => chunks[i] = -1

\* chunks() has returned chunks formed among labels of which one is unknown
C18_Witness ==
  /\ pc = "done"
  /\ \E i \in DOMAIN chunks : partial_labels[i] < 0
  /\ \E i \in DOMAIN chunks : chunks[i] >= 0

\* ----------------------------------------------------------------- C19
\* the square of the Euclidean norm of left - right, in units of 5e-10
SquaredGap(pair) ==
  (pair[1][1] - pair[2][1]) * (pair[1][1] - pair[2][1])
  + (pair[1][2] - pair[2][2]) * (pair[1][2] - pair[2][2])

\* the pairs whose norm of left - right is below 1e-9, which is 2 units
CollapsedAmong(rows) == {p \in 1 .. Len(rows) : SquaredGap(rows[p]) < 4}

\* C19: check_collapsed_pairs raises ValueError exactly when some pair has
\* a norm of left - right below 1e-9; the message then gives the number of
\* such pairs and the number of pairs; else it returns without error; and
\* the array of pairs is never changed.
C19_CollapsedPairs ==
  /\ [](pc \in {"pairs checked", "raised"} =>
         LET k == Cardinality(CollapsedAmong(pairs.rows))
         IN  /\ (pc = "raised") <=> (k >= 1)
             /\ pc = "raised" =>
                  /\ raised.type = "ValueError"
                  /\ raised.text = "{} collapsed pairs found (where the left element is the same as the right element), out of {} pairs in total."
                  /\ raised.args = <<k, Len(pairs.rows)>>
             /\ pc = "pairs checked" => raised = NoException)
  /\ [][pc = "pairs built" => pairs' = pairs]_vars

\* two pairs, one collapsed and one at exactly 1e-9: one of two reported
C19_Witness ==
  /\ pc = "raised"
  /\ Len(pairs.rows) = 2
  /\ SquaredGap(pairs.rows[1]) = 0
  /\ SquaredGap(pairs.rows[2]) = 4
  /\ raised.args = <<1, 2>>

\* ----------------------------------------------------------------- C20
\* two arrays hold the same numbers
SameValues(x, y) ==
  /\ Len(x.values) = Len(y.values)
  /\ \A i \in DOMAIN x.values : x.values[i].n = y.values[i].n

IsFloatDtype(dtype) == dtype \in {"float32", "float64"}

\* C20: for every array x of rank 3 that check_input accepts as tuples
\* without preprocessor, check_input(x) has the shape and the values of x
\* and a float dtype, and check_input(check_input(x)) equals check_input(x).
C20_ValidateIdempotent ==
  /\ pc = "validated" =>
       /\ result.shape = input_data.shape
       /\ SameValues(result, input_data)
       /\ IsFloatDtype(result.dtype)
  /\ pc = "validated again" => result = input_data

\* the same with the dtype as the code leaves it: that of x, and float64
\* for an array of objects
C20_DtypeKept ==
  /\ pc = "validated" =>
       /\ result.shape = input_data.shape
       /\ SameValues(result, input_data)
       /\ result.dtype = IF input_data.dtype = "object" THEN "float64"
                         ELSE input_data.dtype
  /\ pc = "validated again" => result = input_data
  /\ (pc = "raised" /\ result.shape = <<>>) =>
       (Len(input_data.shape) # 3 \/ ~sk_accepts_valued(input_data))

\* ----------------------------------------------------------------- C21
\* the message of the label-domain error
LabelDomainText ==
  "When training on pairs, the labels (y) should contain only values in [-1, 1]. Found an incorrect value."

\* some label is neither -1 nor +1
SomeLabelOutside == \E i \in DOMAIN y_arr : y_arr[i] \notin {-2, 2}

\* the pairs given are accepted as pairs: formed, or indicators with a
\* preprocessor, not empty, with one label each
PairsAccepted ==
  /\ input_data.shape[1] >= 1
  /\ Len(y_arr) = input_data.shape[1]
  /\ Ndim(input_data) = 2 => preprocessor # None

\* C21: when check_input is given pairs in 'tuples' mode with labels y, with
\* or without a preprocessor, and some label is neither -1 nor +1, it raises
\* ValueError with the label-domain message and does not return the arrays.
C21_LabelDomainError ==
  (pc \in {"done", "raised"} /\ PairsAccepted /\ SomeLabelOutside) =>
    /\ pc = "raised"
    /\ raised.type = "ValueError"
    /\ raised.text = LabelDomainText

\* what the code does: the labels come back as given, whatever their values
C21_LabelsReturnedAsGiven ==
  (pc \in {"done", "raised"} /\ PairsAccepted) =>
    /\ pc = "done"
    /\ result[2] = y_arr
    /\ result[1].shape = <<input_data.shape[1], 2, 1>>

\* ----------------------------------------------------------------- C22
\* X L^T, entry by entry: row i of X against row j of transformer_
XLt(Xs) ==
  [i \in 1 .. Len(Xs) |->
    [j \in 1 .. Len(transformer_) |->
      SumSeq([k \in 1 .. Len(Xs[i]) |-> Xs[i][k] * transformer_[j][k]])]]

\* C22: transform of a fitted learner is linear: transform(a + b) equals
\* transform(a) + transform(b) and transform(c * a) equals c * transform(a),
\* and what transform returns is X L^T, of shape (n_samples, number of rows
\* of transformer_).
C22_TransformLinear ==
  /\ pc = "sum embedded" =>
       /\ X_embedded = np_add(transform(X), transform(X_other))
       /\ X_embedded = XLt(np_add(X, X_other))
  /\ pc = "scaled embedded" =>
       /\ X_embedded = np_multiply(scale, transform(X))
       /\ X_embedded = XLt(np_multiply(scale, X))
  /\ pc \in {"sum embedded", "scaled embedded"} =>
       /\ Len(X_embedded) = Len(X)
       /\ \A i \in 1 .. Len(X_embedded) : Len(X_embedded[i]) = Len(transformer_)

\* a sum of two different arrays was embedded by a transformer_ of one row
\* that does not vanish on it
C22_Witness ==
  /\ pc = "sum embedded"
  /\ X_other # X
  /\ Len(X) = 2
  /\ Len(transformer_) = 1
  /\ X_embedded[1][1] # 0

\* ----------------------------------------------------------------- C23
\* X[indicators]: the formed points of the indicators
FormedOf(inds) == [i \in 1 .. Len(inds) |-> X[inds[i] + 1]]

\* the formed pairs of an array of pairs of indicators
FormedPairsOf(rows) ==
  [p \in 1 .. Len(rows) |-> <<X[rows[p][1] + 1], X[rows[p][2] + 1]>>]

\* C23: for a learner fitted with the preprocessor X, transform of a 1-D
\* array of indicators returns what transform returns on the formed points
\* X[indicators], and score_pairs of a 2-D array of pairs of indicators
\* returns what it returns on the formed pairs.
C23_SameWithPreprocessor ==
  /\ indicators # <<>> =>
       /\ pc = "indicators embedded"
       /\ X_embedded = transform(FormedOf(indicators))
  /\ (pc = "scored" /\ pairs.ndim = 2) =>
       scores = score_pairs([ndim |-> 3, rows |-> FormedPairsOf(pairs.rows)])

\* the half of it that holds: the scores of pairs of indicators
C23_ScoresAgree ==
  (pc = "scored" /\ pairs.ndim = 2) =>
    scores = score_pairs([ndim |-> 3, rows |-> FormedPairsOf(pairs.rows)])

\* what the code does with indicators: transform raises, whatever they are
C23_TransformRefusesIndicators ==
  indicators # <<>> => (pc = "raised" /\ raised = ExpectedTwoD /\ X_embedded = <<>>)

\* ----------------------------------------------------------------- C24
\* the least of the eigenvalues given
LeastEigenvalue == Min({w_arr[i] : i \in DOMAIN w_arr})

\* C24: _check_sdp_from_eigen(w, tol) has three outcomes for tol >= 0: it
\* raises NonPSDError if the least eigenvalue is less than -tol, else it
\* returns True if the least eigenvalue is greater than tol and False if
\* not; and a negative tol raises ValueError 'tol should be positive.'
\* whatever the eigenvalues are.
C24_SdpFromEigen ==
  pc \in {"sdp checked", "raised"} =>
    CASE tol < 0 ->
           /\ pc = "raised"
           /\ raised = [type |-> "ValueError", text |-> "tol should be positive."]
      [] tol >= 0 /\ LeastEigenvalue < 0 - tol ->
           /\ pc = "raised"
           /\ raised.type = "NonPSDError"
      [] tol >= 0 /\ LeastEigenvalue >= 0 - tol ->
           /\ pc = "sdp checked"
           /\ returned = (LeastEigenvalue > tol)

\* the scenario [5., -1.] with tol 2: positive semi-definite within
\* tolerance, not strictly definite
C24_Witness ==
  /\ pc = "sdp checked"
  /\ w_arr = <<5, -1>>
  /\ tol = 2
  /\ returned = FALSE

\* ----------------------------------------------------------------- C25
\* the pairs (genuine, impostor) emitted for the anchor a
EmittedFor(a) ==
  {<<triplets[t][2], triplets[t][3]>> : t \in {s \in DOMAIN triplets : triplets[s][1] = a}}

SameLabel(a) == {j \in DOMAIN partial_labels : partial_labels[j] = partial_labels[a]} \ {a}

OtherLabel(a) == {j \in DOMAIN partial_labels : partial_labels[j] # partial_labels[a]}

\* chosen are the k nearest of the candidates of a, or all of them when
\* there are fewer: no candidate left out comes before a chosen one
NearestAmong(a, chosen, candidates, k) ==
  /\ chosen \subseteq candidates
  /\ Cardinality(chosen) = IF Cardinality(candidates) < k THEN Cardinality(candidates) ELSE k
  /\ \A j \in chosen : \A l \in candidates \ chosen :
       \/ SquaredDistance(X, a, j) < SquaredDistance(X, a, l)
       \/ SquaredDistance(X, a, j) = SquaredDistance(X, a, l) /\ j < l

\* C25: generate_knntriplets emits, for each point, one triplet (anchor,
\* genuine, impostor) for every combination of one of its k_genuine nearest
\* neighbours of the same label, itself excluded, and one of its k_impostor
\* nearest neighbours of another label, by Euclidean distance with ties to
\* the lowest index; and on the nine points [i, i] labelled
\* [1,1,1,2,2,2,3,3,3] with k_genuine = k_impostor = 1 it returns the nine
\* triplets of the scenario in their order.
C25_KnnTriplets ==
  pc = "triplets generated" =>
    /\ \A a \in DOMAIN partial_labels :
         \E genuine \in SUBSET SameLabel(a), impostors \in SUBSET OtherLabel(a) :
           /\ NearestAmong(a, genuine, SameLabel(a), k_genuine)
           /\ NearestAmong(a, impostors, OtherLabel(a), k_impostor)
           /\ EmittedFor(a) = genuine \X impostors
           /\ \A gi \in genuine \X impostors :
                Cardinality({t \in DOMAIN triplets : triplets[t] = <<a, gi[1], gi[2]>>}) = 1
    /\ \A t \in DOMAIN triplets :
         /\ triplets[t][1] \in DOMAIN partial_labels
         /\ triplets[t][2] \in SameLabel(triplets[t][1])
         /\ triplets[t][3] \in OtherLabel(triplets[t][1])
    /\ (X = ScenarioX /\ partial_labels = ScenarioLabels /\ k_genuine = 1 /\ k_impostor = 1) =>
         triplets = <<<<0, 1, 3>>, <<1, 0, 3>>, <<2, 1, 3>>, <<3, 4, 2>>, <<4, 3, 2>>,
                      <<5, 4, 6>>, <<6, 7, 5>>, <<7, 6, 5>>, <<8, 7, 5>>>>

\* the scenario has been run and has given nine triplets
C25_Witness ==
  /\ pc = "triplets generated"
  /\ X = ScenarioX
  /\ partial_labels = ScenarioLabels
  /\ k_genuine = 1
  /\ k_impostor = 1
  /\ Len(triplets) = 9

\* ----------------------------------------------------------------- C26
\* the index arrays given, by their values
a_given == constraints[1].values

b_given == constraints[2].values

c_given == constraints[3].values

d_given == constraints[4].values

\* the labels of the claim: +1 for each similar pair, then -1 for each
\* dissimilar pair, one for each pair returned
LabelsPositivesFirst ==
  /\ Len(y_arr) = Len(a_given) + Len(c_given)
  /\ Len(y_arr) = Len(pairs.rows)
  /\ \A i \in 1 .. Len(a_given) : y_arr[i] = 1
  /\ \A i \in 1 .. Len(c_given) : y_arr[Len(a_given) + i] = -1

\* C26, as stated: wrap_pairs returns a single array of pairs of indices
\* and a label array: the first len(a) entries are the pairs (a[i], b[i])
\* in input order with label +1, then come the len(c) pairs (c[i], d[i]) in
\* input order with label -1, and there is one label for each pair.
C26_PairIndexArray ==
  pc = "wrapped" =>
    /\ pairs.ndim = 2
    /\ \A i \in 1 .. Len(a_given) : pairs.rows[i] = <<a_given[i], b_given[i]>>
    /\ \A i \in 1 .. Len(c_given) :
         pairs.rows[Len(a_given) + i] = <<c_given[i], d_given[i]>>
    /\ LabelsPositivesFirst

\* C26, amended: for index arrays of integers, wrap_pairs returns the
\* array X[constraints] of the formed pairs, of rank 3, and a label array:
\* the first len(a) entries are the pairs of points (X[a[i]], X[b[i]]) in
\* input order with label +1, then come the len(c) pairs (X[c[i]], X[d[i]])
\* in input order with label -1, and there is one label for each pair.
C26_FormedPairsAndLabels ==
  /\ (pc \in {"wrapped", "raised"}
      /\ \A k \in 1 .. 4 : constraints[k].dtype = "int64") => pc = "wrapped"
  /\ pc = "wrapped" =>
       /\ pairs.ndim = 3
       /\ \A i \in 1 .. Len(a_given) :
            pairs.rows[i] = <<X[a_given[i] + 1], X[b_given[i] + 1]>>
       /\ \A i \in 1 .. Len(c_given) :
            pairs.rows[Len(a_given) + i] = <<X[c_given[i] + 1], X[d_given[i] + 1]>>
       /\ LabelsPositivesFirst

\* two similar pairs and one dissimilar pair of different points were wrapped
C26_Witness ==
  /\ pc = "wrapped"
  /\ Len(a_given) = 2
  /\ Len(c_given) = 1
  /\ X[1] # X[2]
  /\ a_given[1] # b_given[1]
  /\ c_given[1] # d_given[1]
  /\ y_arr = <<1, 1, -1>>

\* ----------------------------------------------------------------- C27
\* MLKR.fit has run its solver and returned, and res is what it returned
SolverHasRun == learner_class = "MLKR" /\ res # <<>> /\ hasattr(self_dict, "n_iter_")

\* C27: after MLKR.fit returns, n_iter_ equals the number of iterations
\* the solver has run during that fit, whatever the fits made before, and
\* it is at most max_iter.
C27_IterationsCounted ==
  SolverHasRun =>
    /\ self_dict["n_iter_"].value = res.nit
    /\ self_dict["n_iter_"].value <= self_dict["max_iter"].value

\* what the code counts: the calls of _loss of the last fit that ran the
\* solver, whatever the fits made before
C27_LossCallsCounted ==
  SolverHasRun => self_dict["n_iter_"].value = res.loss_calls


\* the squared learned distance of pair p of the pairs scored
PairDistance2(p) == score_pairs(pairs)[p].sqrt

SimilarPairs == {i \in DOMAIN y_arr : y_arr[i] = 1}

DissimilarPairs == {j \in DOMAIN y_arr : y_arr[j] = -1}

\* twice the number of the (similar, dissimilar) couples of pairs that the
\* rule "similar when the distance is below t" ranks rightly, a tie
\* counting for half
RightlyRanked ==
  2 * Cardinality({c \in SimilarPairs \X DissimilarPairs :
                     PairDistance2(c[1]) < PairDistance2(c[2])})
  + Cardinality({c \in SimilarPairs \X DissimilarPairs :
                   PairDistance2(c[1]) = PairDistance2(c[2])})

Separated ==
  \A i \in SimilarPairs : \A j \in DissimilarPairs :
    PairDistance2(i) < PairDistance2(j)

\* C28: score(pairs, y) of a pairs classifier is the ROC AUC of the rule
\* that calls a pair similar (+1) when its predicted distance is below a
\* threshold, so it is 1 whenever every pair labelled +1 has a strictly
\* smaller learned distance than every pair labelled -1.
C28_ScoreIsAucOfDistanceRule ==
  pc = "pairs scored" =>
    /\ returned.num = RightlyRanked
    /\ returned.den = 2 * Cardinality(SimilarPairs \X DissimilarPairs)
    /\ Separated => returned.num = returned.den

\* What the code returns is the area of the opposite rule, the one that
\* calls a pair similar when its distance is above the threshold: one minus
\* the area C28 names.
C28_ScoreIsAucOfOppositeRule ==
  pc = "pairs scored" =>
    /\ returned.num = returned.den - RightlyRanked
    /\ returned.den = 2 * Cardinality(SimilarPairs \X DissimilarPairs)
    /\ Separated => returned.num = 0

\* the squared learned distances of the two pairs of quadruplet p
FirstDistance2(p) == score_pairs(first_two(quadruplets))[p].sqrt

SecondDistance2(p) == score_pairs(last_two(quadruplets))[p].sqrt

RightOrder(p) == FirstDistance2(p) < SecondDistance2(p)

\* the difference d of two roots is the integer v: sqrt(a) - sqrt(b) is an
\* integer other than 0 only when a and b are squares
DifferenceIs(delta, v) ==
  IF v = 0 THEN delta.minus[1].sqrt = delta.minus[2].sqrt
  ELSE /\ IsSquare(delta.minus[1].sqrt)
       /\ IsSquare(delta.minus[2].sqrt)
       /\ IntSqrt(delta.minus[1].sqrt) - IntSqrt(delta.minus[2].sqrt) = v

\* every distance of the quadruplets scored is an integer
IntegerDistances ==
  \A p \in DOMAIN quadruplets.rows :
    IsSquare(FirstDistance2(p)) /\ IsSquare(SecondDistance2(p))

\* the sum of the differences predicted, where the distances are integers
SumPredicted ==
  SumSeq([p \in DOMAIN quadruplets.rows |->
           IntSqrt(returned.neg_mean[p].minus[1].sqrt)
           - IntSqrt(returned.neg_mean[p].minus[2].sqrt)])

\* C29: predict of a quadruplets classifier returns, for each quadruplet,
\* 1 if its first pair has the smaller learned distance and -1 if not, so
\* every value is -1 or +1; score returns the accuracy of that
\* classification, the share of the quadruplets in the right order, a value
\* in [0, 1].  (The score is compared where the distances are integers.)
C29_QuadrupletsClassified ==
  /\ pc = "quadruplets predicted" =>
       \A p \in DOMAIN returned :
         DifferenceIs(returned[p], IF RightOrder(p) THEN 1 ELSE -1)
  /\ (pc = "quadruplets scored" /\ IntegerDistances) =>
       /\ 0 - SumPredicted = Cardinality({p \in DOMAIN quadruplets.rows : RightOrder(p)})
       /\ 0 - SumPredicted >= 0
       /\ 0 - SumPredicted <= Len(quadruplets.rows)

\* What the code returns: predict is the difference of the two distances,
\* negative in the right order and 0 when the distances are equal, and
\* score is the opposite of the mean of these differences.
C29_PredictIsDifference ==
  /\ pc = "quadruplets predicted" =>
       \A p \in DOMAIN returned :
         /\ returned[p].minus[1].sqrt = FirstDistance2(p)
         /\ returned[p].minus[2].sqrt = SecondDistance2(p)
  /\ pc = "quadruplets scored" =>
       \A p \in DOMAIN returned.neg_mean :
         /\ returned.neg_mean[p].minus[1].sqrt = FirstDistance2(p)
         /\ returned.neg_mean[p].minus[2].sqrt = SecondDistance2(p)

\* a quadruplet in the right order for which predict returns -1
C29_RightOrderPredictedMinusOne ==
  /\ pc = "quadruplets predicted"
  /\ \E p \in DOMAIN returned : RightOrder(p) /\ DifferenceIs(returned[p], -1)

\* a score below 0
C29_NegativeScore ==
  /\ pc = "quadruplets scored"
  /\ IntegerDistances
  /\ 0 - SumPredicted < 0


\* every similar pair closer than every dissimilar pair, and a score of 0
C28_SeparatedScoredZero ==
  /\ pc = "pairs scored"
  /\ Separated
  /\ returned.num = 0


\* the indices c the claim lets the loop select in a pool of n classes
SelectableIndices(n) == IF n = 1 THEN {0} ELSE 0 .. (n - 2)

\* the step removed class c from the pool, and did nothing else
ClassRemoved(c) ==
  /\ Cardinality(all_inds[c + 1]) < chunk_size
  /\ Len(all_inds') = Len(all_inds) - 1
  /\ \A k \in 1 .. Len(all_inds') :
       all_inds'[k] = IF k <= c THEN all_inds[k] ELSE all_inds[k + 1]
  /\ idx' = idx
  /\ chunks' = chunks

\* the step formed chunk idx of chunk_size unused members of class c, and
\* removed no class
ChunkFormed(c) ==
  /\ Cardinality(all_inds[c + 1]) >= chunk_size
  /\ Len(all_inds') = Len(all_inds)
  /\ \A k \in 1 .. Len(all_inds) : k # c + 1 => all_inds'[k] = all_inds[k]
  /\ all_inds'[c + 1] \subseteq all_inds[c + 1]
  /\ Cardinality(all_inds[c + 1] \ all_inds'[c + 1]) = chunk_size
  /\ idx' = idx + 1
  /\ \A i \in DOMAIN chunks :
       chunks'[i] = IF i \in all_inds[c + 1] \ all_inds'[c + 1] THEN idx
                    ELSE chunks[i]

\* C30: in chunks(), every iteration of the loop selects a class at an index
\* of 0 .. len(pool)-2 while more than one class is in the pool (index 0
\* when one is left), so the class in the last position is not selected
\* until it is alone; the iteration removes the selected class from the pool
\* only if it holds fewer than chunk_size unused members, and otherwise
\* forms one chunk of it: each iteration does one or the other.
C30_ClassSelection ==
  [][(pc = "loop" /\ pc' = "loop") =>
       \E c \in SelectableIndices(Len(all_inds)) :
         ClassRemoved(c) \/ ChunkFormed(c)]_vars

\* a chunk has been formed and a class removed while more than one class
\* is left in the pool, the last one with every member unused
C30_Witness ==
  /\ pc = "loop"
  /\ idx > 0
  /\ Len(all_inds) > 1
  /\ Len(all_inds) < Len(InitAllInds(partial_labels))
  /\ all_inds[Len(all_inds)]
       = InitAllInds(partial_labels)[Len(InitAllInds(partial_labels))]
====
